---- MODULE Spec2Model ----
(***************************************************************************)
(* Model of the caching layer of local-docs-mcp: CachedScanner wraps the   *)
(* Scanner with a single-slot expirable cache, a filesystem watcher with a *)
(* debounce timer and a TTL.                                               *)
(*                                                                         *)
(* Time is counted in ticks; one tick is half the debounce window.         *)
(***************************************************************************)
EXTENDS Integers, Sequences, FiniteSets, TLC

\* ---------------------------------------------------------------- bounds
\* number of goroutines calling CachedScanner.Scan concurrently
NumProcs == 2
\* the ttl handed to NewCachedScanner, in ticks
CacheTTL == 2
\* events the watcher may hold undelivered
MaxEvents == 2
\* filesystem changes made while the watcher is observed
MaxChanges == 3
\* Close calls of one run
MaxClose == 3
\* path components of an event name
MaxDepth == 2
\* operations combined in one event
MaxOps == 2
\* path components of a path handed to a tool
MaxSegs == 3
\* pieces (delimiters, line endings, bytes) of a parsed document
MaxPieces == 7

\* -------------------------------------------------------- program constants
\* defaultDebounce = 500ms, in ticks of 250ms
defaultDebounce == 2
\* maxFileSize = 5MB, in units of 2.5MB
maxFileSize == 2

Procs == 1..NumProcs

\* the markdown files of the model, named by FileInfo.Filename
AllFiles == {"commands:c.md", "commands:sub/s.md", "project-root:r.md"}

\* FileInfo.Source of an entry
SourceOf(f) ==
    IF f \in {"commands:c.md", "commands:sub/s.md"} THEN "commands" ELSE "project-root"

\* the directory holding a file: a source base directory or a subdirectory
DirOf(f) ==
    CASE f = "commands:c.md" -> "commands"
      [] f = "commands:sub/s.md" -> "commands/sub"
      [] OTHER -> "project-root"

\* strings are sequences of one-character strings
\* F of arg, with arg evaluated once before the call, as Go evaluates the
\* arguments of a call
Apply(F(_), arg) == CHOOSE r \in {F(v) : v \in {arg}} : TRUE

RECURSIVE Join(_, _)
\* strings.Join(parts, sep)
Join(parts, sep) ==
    IF parts = <<>> THEN <<>>
    ELSE IF Len(parts) = 1 THEN parts[1]
    ELSE parts[1] \o sep \o Join(Tail(parts), sep)

\* the path fsnotify reports for a file
PathOf(f) ==
    CASE f = "commands:c.md" ->
            Join(<< <<"c","o","m","m","a","n","d","s">>, <<"c",".","m","d">> >>, <<"/">>)
      [] f = "commands:sub/s.md" ->
            Join(<< <<"c","o","m","m","a","n","d","s">>, <<"s","u","b">>, <<"s",".","m","d">> >>, <<"/">>)
      [] OTHER ->
            Join(<< <<"r","o","o","t">>, <<"r",".","m","d">> >>, <<"/">>)

\* filepath.WalkDir visits entries in lexical order
WalkOrder == <<"commands:c.md", "commands:sub/s.md", "project-root:r.md">>

Nil == "nil"
Canceled == "context.Canceled"
ReadDirError == "permission denied"
NotExist == "not exist"

NoEntry == [present |-> FALSE, files |-> <<>>, left |-> 0]

VARIABLES
    fs,            \* markdown files present on disk
    subdir,        \* the directory commands/sub exists
    cache,         \* the expirable cache's single slot (key "file_list")
    pc,            \* where each Scan caller stands
    results,       \* Scanner.Scan's local results, per caller
    ret,           \* what Scan returned, per caller
    watcherActive, \* CachedScanner.watcherActive
    watcher,       \* CachedScanner.watcher: "nil", "open" or "closed"
    stopCh,        \* number of close(stopCh) executed
    watched,       \* directories added to the fsnotify watcher
    events,        \* watcher.Events not yet received by watchLoop
    timer,         \* debounceTimer: -1 stopped, else ticks until it fires
    loop,          \* watchLoop goroutine: "none", "running" or "exited"
    closeRet,      \* what each Close call so far returned and did
    hist,          \* history of the run, read only by the properties
    call,          \* history of each Scan call, read only by the properties
    ctx,           \* the context of the tool call: "live" or "cancelled"
    tpc,           \* where the tool call stands
    req,           \* the arguments of the tool call
    resp           \* what the tool call has computed and returned

vars == <<fs, subdir, cache, pc, results, ret, watcherActive, watcher, stopCh,
          watched, events, timer, loop, closeRet, hist, call, ctx, tpc, req, resp>>

toolVars == <<ctx, tpc, req, resp>>

scanVars == <<pc, results, ret>>
watchVars == <<watcherActive, watcher, stopCh, watched, events, timer, loop, closeRet>>
fsVars == <<fs, subdir>>

\* ------------------------------------------------------------- Scanner
\* base directories that do not exist (ProjectDocsDir is left unset)
MissingDirs == {"project-docs"}

\* the entries a walk of one source finds, in walk order
EntriesOf(source, files) ==
    SelectSeq(WalkOrder, LAMBDA f : f \in files /\ SourceOf(f) = source)

\* WalkDir hands every error to the callback, which skips it
scanRecursive(source, files) == [files |-> EntriesOf(source, files), err |-> Nil]

\* os.ReadDir's error is returned as it is
scanFlat(source, files, denied) ==
    IF denied
    THEN [files |-> <<>>, err |-> ReadDirError]
    ELSE [files |-> EntriesOf(source, files), err |-> Nil]

\* one source: NotExist for a missing base directory, else the walk
scanSource(source, files, denied) ==
    IF source \in MissingDirs
    THEN [files |-> <<>>, err |-> NotExist]
    ELSE IF source = "project-root"
         THEN scanFlat(source, files, denied)
         ELSE scanRecursive(source, files)

\* the step after a source in Scanner.Scan; "set" is the return to the cache
NextStep(source) ==
    CASE source = "commands" -> "project-docs"
      [] source = "project-docs" -> "project-root"
      [] OTHER -> "set"

\* ------------------------------------------------- expirable cache (one key)
\* Operations fall strictly between two ticks, so an entry stored CacheTTL
\* ticks ago is older than the ttl: left counts the ticks it is still served.

\* (mutant) a hit restarts the entry's ttl
cacheGetTouch(c) ==
    IF c.present /\ c.left > 0
    THEN [files |-> c.files, ok |-> TRUE, cache |-> [c EXCEPT !.left = CacheTTL]]
    ELSE [files |-> <<>>, ok |-> FALSE, cache |-> c]

\* (mutant) the key is never found
cacheGetMiss(c) == [files |-> <<>>, ok |-> FALSE, cache |-> c]

\* cache.Get: a hit unless now is after expiresAt; the entry is left as it is
cacheGet(c) ==
    IF c.present /\ c.left > 0
    THEN [files |-> c.files, ok |-> TRUE, cache |-> c]
    ELSE [files |-> <<>>, ok |-> FALSE, cache |-> c]

\* (mutant) Set merges the new files into the entry it finds
cacheSetMerge(c, files) ==
    [present |-> TRUE,
     files |-> SelectSeq(WalkOrder, LAMBDA f :
                  \/ \E i \in 1..Len(files) : files[i] = f
                  \/ c.present /\ \E i \in 1..Len(c.files) : c.files[i] = f),
     left |-> CacheTTL]

\* cache.Set replaces the slot and restarts the ttl
cacheSet(c, files) == [present |-> TRUE, files |-> files, left |-> CacheTTL]

\* (mutant) the key is left in place
cacheInvalidateKeep(c) == c

\* cache.Invalidate removes the key
cacheInvalidate(c) == NoEntry

\* (mutant) the result is stored before the error is looked at
scanReturnStoreFirst(c, files, err) ==
    [cache |-> cacheSet(c, files), files |-> IF err # Nil THEN <<>> ELSE files, err |-> err]

\* what Scan does with Scanner.Scan's result: an error is returned and nothing
\* is stored, files are stored and returned
scanReturn(c, files, err) ==
    IF err # Nil
    THEN [cache |-> c, files |-> <<>>, err |-> err]
    ELSE [cache |-> cacheSet(c, files), files |-> files, err |-> Nil]

\* ------------------------------------------------------ history bookkeeping
\* Each specification observes the run through some of the history fields;
\* the others keep their initial value.
NoIndex == <<"none">>
NoRet == [files |-> <<>>, err |-> Nil, scanned |-> FALSE]
NoCall == [unchanged |-> {}, afterInv |-> FALSE, fresh |-> FALSE,
           expect |-> NoIndex, filled |-> FALSE, wrote |-> FALSE]
InitHist == [obs |-> "log", scanLog |-> {}, lastFill |-> NoIndex, quiet |-> FALSE, stale |-> FALSE, age |-> 0, lastOK |-> NoIndex,
             sinceRel |-> defaultDebounce, invSince |-> 0, invGap |-> defaultDebounce,
             burst |-> 0, lastBurst |-> 0, changes |-> 0, ctorErr |-> Nil,
             lastEv |-> "none"]

ObsHist(h) ==
    [h EXCEPT !.scanLog = IF h.obs = "log" THEN @ ELSE {},
              !.lastFill = IF h.obs = "log" THEN @ ELSE NoIndex,
              !.quiet = IF h.obs = "fresh" THEN @ ELSE FALSE,
              !.stale = IF h.obs \in {"fresh", "watch"} THEN @ ELSE FALSE,
              !.lastOK = IF h.obs = "expect" THEN @ ELSE NoIndex,
              !.sinceRel = IF h.obs = "watch" THEN @ ELSE defaultDebounce,
              !.invSince = IF h.obs = "watch" THEN @ ELSE 0,
              !.invGap = IF h.obs = "watch" THEN @ ELSE defaultDebounce,
              !.burst = IF h.obs = "watch" THEN @ ELSE 0,
              !.lastBurst = IF h.obs = "watch" THEN @ ELSE 0,
              !.changes = IF h.obs = "watch" THEN @ ELSE 0,
              !.lastEv = IF h.obs = "event" THEN @ ELSE "none"]

ObsCall(c) ==
    [c EXCEPT !.unchanged = IF hist.obs = "fresh" THEN @ ELSE {},
              !.afterInv = IF hist.obs = "fresh" THEN @ ELSE FALSE,
              !.fresh = IF hist.obs = "fresh" THEN @ ELSE FALSE,
              !.expect = IF hist.obs = "expect" THEN @ ELSE NoIndex,
              !.filled = IF hist.obs = "expect" THEN @ ELSE FALSE]

InFlight(p) == pc[p] \notin {"idle", "done"}

\* the entry is gone (invalidated or expired): nothing is expected of later calls
Forget(h) == [h EXCEPT !.lastOK = NoIndex, !.lastFill = NoIndex]
ForgetCalls == [q \in Procs |-> [call[q] EXCEPT !.expect = NoIndex]]

\* ------------------------------------------------------ CachedScanner.Scan
\* entry: the select on ctx.Done(), which the caller may have closed
ScanBegin(p) ==
    /\ UNCHANGED toolVars
    /\ pc[p] = "idle"
    /\ \E cancelled \in BOOLEAN :
          IF cancelled
          THEN /\ pc' = [pc EXCEPT ![p] = "done"]
               /\ ret' = [ret EXCEPT ![p] = [files |-> <<>>, err |-> Canceled, scanned |-> FALSE]]
          ELSE /\ pc' = [pc EXCEPT ![p] = "get"]
               /\ ret' = ret
    /\ call' = [call EXCEPT ![p] = ObsCall(
                   [unchanged |-> AllFiles,
                    afterInv |-> ~hist.stale,
                    fresh |-> FALSE,
                    expect |-> hist.lastOK,
                    filled |-> FALSE,
                    wrote |-> FALSE])]
    /\ UNCHANGED <<fsVars, cache, results, watchVars, hist>>

\* cs.cache.Get(cacheKey): return the entry on a hit, go on to scan on a miss
ScanCacheGet(p) ==
    /\ UNCHANGED toolVars
    /\ pc[p] = "get"
    /\ LET g == cacheGet(cache) IN
         /\ cache' = g.cache
         /\ IF g.ok
            THEN /\ pc' = [pc EXCEPT ![p] = "done"]
                 /\ ret' = [ret EXCEPT ![p] = [files |-> g.files, err |-> Nil, scanned |-> FALSE]]
                 /\ hist' = ObsHist([hist EXCEPT !.lastOK = g.files, !.quiet = FALSE])
            ELSE /\ pc' = [pc EXCEPT ![p] = "commands"]
                 /\ hist' = ObsHist([hist EXCEPT !.quiet = FALSE])
                 /\ ret' = ret
    /\ call' = [call EXCEPT ![p] = ObsCall([@ EXCEPT !.fresh = hist.quiet])]
    /\ UNCHANGED <<fsVars, results, watchVars>>

\* Scanner.Scan, one source at a time: the context check, then scanSource;
\* an error ends Scan at once, through scanReturn
ScannerScanSource(p) ==
    /\ UNCHANGED toolVars
    /\ pc[p] \in {"commands", "project-docs", "project-root"}
    /\ \E cancelled \in BOOLEAN, denied \in BOOLEAN :
         LET r == scanSource(pc[p], fs, denied)
             err == IF cancelled THEN Canceled
                    ELSE IF r.err = NotExist THEN Nil ELSE r.err
             found == IF r.err = Nil THEN results[p] \o r.files ELSE results[p]
             out == scanReturn(cache, <<>>, err)
         IN  /\ denied => pc[p] = "project-root" /\ ~cancelled
             /\ IF err # Nil
                THEN /\ pc' = [pc EXCEPT ![p] = "done"]
                     /\ cache' = out.cache
                     /\ ret' = [ret EXCEPT ![p] = [files |-> out.files, err |-> out.err, scanned |-> TRUE]]
                     /\ call' = [call EXCEPT ![p].wrote = (out.cache # cache)]
                     /\ UNCHANGED <<results, hist>>
                ELSE /\ pc' = [pc EXCEPT ![p] = NextStep(pc[p])]
                     /\ results' = [results EXCEPT ![p] = found]
                     /\ hist' = IF NextStep(pc[p]) = "set"
                                THEN ObsHist([hist EXCEPT !.scanLog = @ \cup {found}])
                                ELSE hist
                     /\ UNCHANGED <<cache, ret, call>>
    /\ UNCHANGED <<fsVars, watchVars>>

\* Scanner.Scan returned files: cs.cache.Set(cacheKey, files, cs.ttl), return
ScanCacheSet(p) ==
    /\ UNCHANGED toolVars
    /\ pc[p] = "set"
    /\ LET out == scanReturn(cache, results[p], Nil) IN
         /\ cache' = out.cache
         /\ ret' = [ret EXCEPT ![p] = [files |-> out.files, err |-> out.err, scanned |-> TRUE]]
         /\ hist' = ObsHist([hist EXCEPT !.lastOK = out.files, !.lastFill = results[p],
                                         !.age = 0])
    /\ pc' = [pc EXCEPT ![p] = "done"]
    /\ call' = [q \in Procs |->
                   IF q = p THEN [call[q] EXCEPT !.wrote = TRUE]
                            ELSE ObsCall([call[q] EXCEPT !.filled = @ \/ InFlight(q)])]
    /\ UNCHANGED <<fsVars, results, watchVars>>

\* the caller takes the result; the goroutine may call Scan again
ScanReturn(p) ==
    /\ UNCHANGED toolVars
    /\ pc[p] = "done"
    /\ pc' = [pc EXCEPT ![p] = "idle"]
    /\ results' = [results EXCEPT ![p] = <<>>]
    /\ ret' = [ret EXCEPT ![p] = NoRet]
    /\ call' = [call EXCEPT ![p] = NoCall]
    /\ UNCHANGED <<fsVars, cache, watchVars, hist>>

\* CachedScanner.invalidate
invalidate ==
    /\ cache' = cacheInvalidate(cache)
    /\ call' = ForgetCalls

\* invalidate() called directly, or by watchLoop at a moment left open
Invalidate ==
    /\ UNCHANGED toolVars
    /\ invalidate
    /\ hist' = ObsHist([Forget(hist) EXCEPT !.stale = FALSE, !.age = 0,
                          !.quiet = \A q \in Procs : ~InFlight(q)])
    /\ UNCHANGED <<fsVars, scanVars, watchVars>>

\* ------------------------------------------------------------ environment
\* what a change of f leaves behind in the history
Touched(f) ==
    call' = [q \in Procs |-> [call[q] EXCEPT !.unchanged = @ \ {f}]]

\* a markdown file is created or removed while nobody listens
FileChange(f) ==
    /\ UNCHANGED toolVars
    /\ fs' = IF f \in fs THEN fs \ {f} ELSE fs \cup {f}
    /\ Touched(f)
    /\ hist' = ObsHist([hist EXCEPT !.stale = TRUE])
    /\ UNCHANGED <<subdir, cache, scanVars, watchVars>>

\* one tick of the clock: the entry ages, an armed timer runs down
Tick ==
    /\ UNCHANGED toolVars
    /\ \/ cache.present /\ cache.left > 0
       \/ timer > 0
    /\ cache' = IF cache.present /\ cache.left > 0
                THEN [cache EXCEPT !.left = @ - 1]
                ELSE cache
    /\ timer' = IF timer > 0 THEN timer - 1 ELSE timer
    /\ LET h == [hist EXCEPT !.age = IF cache.present /\ @ < CacheTTL THEN @ + 1 ELSE @,
                             !.sinceRel = IF @ < defaultDebounce THEN @ + 1 ELSE @]
           expired == cache.present /\ cache.left = 1
       IN  /\ hist' = ObsHist(IF expired THEN [h EXCEPT !.lastOK = NoIndex] ELSE h)
           /\ call' = IF expired THEN ForgetCalls ELSE call
    /\ UNCHANGED <<fsVars, scanVars, watcherActive, watcher, stopCh, watched, events,
                   loop, closeRet>>

\* ------------------------------------------------------ CachedScanner.Close
\* (mutant) Close forgets to clear watcherActive
closeWatcherStaysActive(active, w, stop) ==
    IF ~active
    THEN [watcherActive |-> active, watcher |-> w, stopCh |-> stop,
          err |-> Nil, closed |-> FALSE]
    ELSE [watcherActive |-> TRUE, watcher |-> IF w # "nil" THEN "closed" ELSE w,
          stopCh |-> stop + 1, err |-> Nil, closed |-> TRUE]

\* the body of Close under cs.mu: the fields it leaves, what it returns and
\* whether it closed stopCh
closeWatcher(active, w, stop) ==
    IF ~active
    THEN [watcherActive |-> active, watcher |-> w, stopCh |-> stop,
          err |-> Nil, closed |-> FALSE]
    ELSE [watcherActive |-> FALSE, watcher |-> IF w # "nil" THEN "closed" ELSE w,
          stopCh |-> stop + 1, err |-> Nil, closed |-> TRUE]

Close ==
    /\ UNCHANGED toolVars
    /\ Len(closeRet) < MaxClose
    /\ stopCh < 2
    /\ LET c == closeWatcher(watcherActive, watcher, stopCh) IN
         /\ watcherActive' = c.watcherActive
         /\ watcher' = c.watcher
         /\ stopCh' = c.stopCh
         /\ closeRet' = Append(closeRet, [err |-> c.err, closed |-> c.closed])
    /\ UNCHANGED <<fsVars, cache, scanVars, watched, events, timer, loop, hist, call>>

\* ------------------------------------------------------------- watchLoop
\* strings.HasSuffix
HasSuffix(s, suffix) ==
    Len(s) >= Len(suffix) /\ SubSeq(s, Len(s) - Len(suffix) + 1, Len(s)) = suffix

\* strings.HasPrefix
HasPrefix(s, prefix) ==
    Len(s) >= Len(prefix) /\ SubSeq(s, 1, Len(prefix)) = prefix

\* strings.Index(s, "/"), counted from 1; 0 when there is none
IndexSlash(s) ==
    IF \E i \in 1..Len(s) : s[i] = "/"
    THEN CHOOSE i \in 1..Len(s) : s[i] = "/" /\ \A j \in 1..(i - 1) : s[j] # "/"
    ELSE 0

RECURSIVE Split(_)
\* strings.Split(s, "/"): what stands before the first "/", then the rest split
Split(s) ==
    Apply(LAMBDA v :
        Apply(LAMBDA i :
            IF i = 0 THEN <<v>>
            ELSE <<SubSeq(v, 1, i - 1)>> \o Split(SubSeq(v, i + 1, Len(v))),
            IndexSlash(v)),
        s)

RECURSIVE TrimSlashes(_)
\* the trailing slashes filepath.Base strips
TrimSlashes(s) ==
    IF s # <<>> /\ s[Len(s)] = "/" THEN TrimSlashes(SubSeq(s, 1, Len(s) - 1)) ELSE s

\* filepath.Base: the last element of the path
Base(path) ==
    IF path = <<>> THEN <<".">>
    ELSE IF TrimSlashes(path) = <<>> THEN <<"/">>
    ELSE Apply(LAMBDA parts : parts[Len(parts)], Split(TrimSlashes(path)))

\* Scanner.excludeDirs, as configured
excludeDirs == << <<"x">> >>

\* Scanner.shouldExcludeDir
shouldExcludeDir(dirName) == \E i \in 1..Len(excludeDirs) : dirName = excludeDirs[i]

\* CachedScanner.isInExcludedPath: some component of the path is excluded
isInExcludedPath(path) ==
    \E parts \in {Split(path)} : \E i \in 1..Len(parts) : shouldExcludeDir(parts[i])

\* fsnotify.Event.Has: the bit of op is set in the event's mask
Has(event, op) == op \in event.op

\* (mutant) the base name is not looked at
isRelevantEventAnyBase(event) ==
    /\ Has(event, "write") \/ Has(event, "create") \/ Has(event, "remove") \/ Has(event, "rename")
    /\ HasSuffix(event.name, <<".", "m", "d">>)
    /\ ~isInExcludedPath(event.name)

\* isRelevantEvent: write, create, remove or rename of a visible .md file
\* outside the excluded directories
isRelevantEvent(event) ==
    /\ Has(event, "write") \/ Has(event, "create") \/ Has(event, "remove") \/ Has(event, "rename")
    /\ HasSuffix(event.name, <<".", "m", "d">>)
    /\ \A base \in {Base(event.name)} : ~HasPrefix(base, <<".">>)
    /\ ~isInExcludedPath(event.name)

\* (mutant) a running timer is left running
onEventNoReset(t, event) ==
    IF isRelevantEvent(event) /\ t < 0 THEN defaultDebounce ELSE t

\* the event case: debounceTimer.Reset(cs.debounce) on a relevant event
onEvent(t, event) == IF isRelevantEvent(event) THEN defaultDebounce ELSE t

\* case event, ok := <-cs.watcher.Events, with ok
watchLoopEvent ==
    /\ UNCHANGED toolVars
    /\ loop = "running"
    /\ events # <<>>
    /\ LET e == Head(events) IN
         /\ timer' = onEvent(timer, e)
         /\ hist' = IF isRelevantEvent(e)
                    THEN ObsHist([hist EXCEPT !.sinceRel = 0, !.invSince = 0,
                                              !.burst = IF hist.sinceRel >= defaultDebounce THEN 1
                                                        ELSE IF @ < 2 THEN @ + 1 ELSE @,
                                              !.lastEv = "reset"])
                    ELSE ObsHist([hist EXCEPT !.lastEv = "ignored"])
    /\ events' = Tail(events)
    /\ UNCHANGED <<fsVars, cache, scanVars, watcherActive, watcher, stopCh, watched,
                   loop, closeRet, call>>

\* case <-debounceTimer.C: cs.invalidate()
watchLoopTimer ==
    /\ UNCHANGED toolVars
    /\ loop = "running"
    /\ timer = 0
    /\ invalidate
    /\ timer' = -1
    /\ hist' = ObsHist([Forget(hist) EXCEPT !.stale = FALSE, !.age = 0,
                          !.quiet = \A q \in Procs : ~InFlight(q),
                          !.invSince = IF @ < 2 THEN @ + 1 ELSE @,
                          !.invGap = hist.sinceRel,
                          !.lastBurst = hist.burst, !.burst = 0])
    /\ UNCHANGED <<fsVars, scanVars, watcherActive, watcher, stopCh, watched, events,
                   loop, closeRet>>

\* case <-cs.stopCh: return
watchLoopStop ==
    /\ UNCHANGED toolVars
    /\ loop = "running"
    /\ stopCh > 0
    /\ loop' = "exited"
    /\ UNCHANGED <<fsVars, cache, scanVars, watcherActive, watcher, stopCh, watched,
                   events, timer, closeRet, hist, call>>

\* the Events channel of a closed watcher yields !ok: return
watchLoopClosed ==
    /\ UNCHANGED toolVars
    /\ loop = "running"
    /\ watcher = "closed"
    /\ loop' = "exited"
    /\ events' = <<>>
    /\ UNCHANGED <<fsVars, cache, scanVars, watcherActive, watcher, stopCh, watched,
                   timer, closeRet, hist, call>>

\* ------------------------------------------------- the watched environment
\* fsnotify reports a change in a directory that was added to an open watcher
Notify(dir, event) ==
    IF watcher = "open" /\ dir \in watched
    THEN /\ Len(events) < MaxEvents
         /\ events' = Append(events, event)
    ELSE events' = events

\* a markdown file is created or removed
WatchedChange(f) ==
    /\ UNCHANGED toolVars
    /\ hist.changes < MaxChanges
    /\ DirOf(f) = "commands/sub" => subdir
    /\ fs' = IF f \in fs THEN fs \ {f} ELSE fs \cup {f}
    /\ Notify(DirOf(f), [op |-> IF f \in fs THEN {"remove"} ELSE {"create"}, name |-> PathOf(f)])
    /\ Touched(f)
    /\ hist' = ObsHist([hist EXCEPT !.stale = TRUE, !.changes = @ + 1])
    /\ UNCHANGED <<subdir, cache, scanVars, watcherActive, watcher, stopCh, watched,
                   timer, loop, closeRet>>

\* the directory commands/sub is created after the cache was constructed
MkDir ==
    /\ UNCHANGED toolVars
    /\ ~subdir
    /\ subdir' = TRUE
    /\ Notify("commands", [op |-> {"create"},
                            name |-> Join(<< <<"c","o","m","m","a","n","d","s">>, <<"s","u","b">> >>, <<"/">>)])
    /\ UNCHANGED <<fs, cache, scanVars, watcherActive, watcher, stopCh, watched,
                   timer, loop, closeRet, hist, call>>

\* the operations of fsnotify.Op
Ops == {"create", "write", "remove", "rename", "chmod"}

\* path components of the events fsnotify may send
Segments ==
    { <<>>, <<"x">>, <<"m">>, <<".", "m">>, <<"m", "d">>, <<"m", ".", "m", "d">>,
      <<".", "m", "d">>, <<"x", ".", "m", "d">> }

RECURSIVE Paths(_)
\* the paths of n components
Paths(n) ==
    IF n = 0 THEN {<<>>}
    ELSE {<<seg>> \o rest : seg \in Segments, rest \in Paths(n - 1)}

Events ==
    { [op |-> o, name |-> Join(parts, <<"/">>)] :
         o \in {m \in SUBSET Ops : Cardinality(m) <= MaxOps}, parts \in UNION {Paths(n) : n \in 1..MaxDepth} }

\* fsnotify sends an event for some path below a watched directory
Deliver(e) ==
    /\ UNCHANGED toolVars
    /\ watcher = "open"
    /\ events = <<>>
    /\ events' = <<e>>
    /\ hist' = ObsHist([hist EXCEPT !.lastEv = "none"])
    /\ UNCHANGED <<fsVars, cache, scanVars, watcherActive, watcher, stopCh, watched,
                   timer, loop, closeRet, call>>

\* --------------------------------------------------- NewCachedScanner
\* the directories addWatchRecursive adds: every non-hidden, non-excluded
\* directory that exists below the three source directories
addWatchRecursive(sub) ==
    {"commands", "project-root"} \cup (IF sub THEN {"commands/sub"} ELSE {})

\* the fields startWatcher leaves, by whether fsnotify.NewWatcher succeeded
startWatcher(ok, sub) ==
    IF ok
    THEN [watcher |-> "open", watched |-> addWatchRecursive(sub),
          watcherActive |-> TRUE, loop |-> "running", err |-> Nil]
    ELSE [watcher |-> "nil", watched |-> {},
          watcherActive |-> FALSE, loop |-> "none", err |-> "failed to create watcher"]

\* (mutant) the watcher's error is handed to the caller
NewCachedScannerStrict(ok, sub) ==
    [cs |-> startWatcher(ok, sub), err |-> startWatcher(ok, sub).err]

\* NewCachedScanner returns the scanner and a nil error either way
NewCachedScanner(ok, sub) == [cs |-> startWatcher(ok, sub), err |-> Nil]

\* no tool call has been made
NoReq == [path |-> <<>>, source |-> <<>>]
NoResp == [err |-> Nil]

\* ------------------------------------------------------------ path package
\* filepath.IsAbs
IsAbs(path) == HasPrefix(path, <<"/">>)

\* strings.Contains(s, "..")
ContainsDotDot(s) == \E i \in 1..(Len(s) - 1) : s[i] = "." /\ s[i + 1] = "."

\* the elements of a path that name something: not empty, not "."
Elements(path) == SelectSeq(Split(path), LAMBDA c : c # <<>> /\ c # <<".">>)

RECURSIVE CleanStack(_, _, _)
\* the elements Clean keeps: ".." removes the element before it, is dropped
\* at the root, and stays at the front of a relative path
CleanStack(elems, stack, rooted) ==
    IF elems = <<>> THEN stack
    ELSE IF Head(elems) # <<".", ".">>
         THEN CleanStack(Tail(elems), Append(stack, Head(elems)), rooted)
    ELSE IF stack # <<>> /\ stack[Len(stack)] # <<".", ".">>
         THEN CleanStack(Tail(elems), SubSeq(stack, 1, Len(stack) - 1), rooted)
    ELSE IF rooted
         THEN CleanStack(Tail(elems), stack, rooted)
    ELSE CleanStack(Tail(elems), Append(stack, Head(elems)), rooted)

\* filepath.Clean
Clean(path) ==
    Apply(LAMBDA p :
        Apply(LAMBDA kept :
            Apply(LAMBDA out : IF out = <<>> THEN <<".">> ELSE out,
                  IF IsAbs(p) THEN <<"/">> \o kept ELSE kept),
            Join(CleanStack(Elements(p), <<>>, IsAbs(p)), <<"/">>)),
        path)

\* filepath.Join of two elements: empty elements are ignored, the rest cleaned
filepathJoin(a, b) ==
    IF a = <<>> /\ b = <<>> THEN <<>>
    ELSE IF a = <<>> THEN Clean(b)
    ELSE IF b = <<>> THEN Clean(a)
    ELSE Clean(a \o <<"/">> \o b)

\* the number of leading elements two element lists share
RECURSIVE Common(_, _)
Common(a, b) ==
    IF a # <<>> /\ b # <<>> /\ Head(a) = Head(b) THEN 1 + Common(Tail(a), Tail(b)) ELSE 0

\* filepath.Rel of two cleaned paths: the path from base to targ, or an error
Rel(base, targ) ==
    Apply(LAMBDA b :
        Apply(LAMBDA t :
            Apply(LAMBDA n :
                LET up == [i \in 1..(Len(b) - n) |-> <<".", ".">>]
                    down == SubSeq(t, n + 1, Len(t))
                IN  IF IsAbs(base) # IsAbs(targ)
                    THEN [path |-> <<>>, err |-> "Rel: can't make relative"]
                    ELSE IF \E i \in (n + 1)..Len(b) : b[i] = <<".", ".">>
                         THEN [path |-> <<>>, err |-> "Rel: can't make relative"]
                    ELSE IF up \o down = <<>> THEN [path |-> <<".">>, err |-> Nil]
                    ELSE [path |-> Join(up \o down, <<"/">>), err |-> Nil],
                Common(b, t)),
            IF targ = <<".">> THEN <<>> ELSE Elements(targ)),
        IF base = <<".">> THEN <<>> ELSE Elements(base))

\* --------------------------------------------- the files the tools are asked for
SrcCommands == <<"c", "o", "m", "m", "a", "n", "d", "s">>
SrcProjectDocs == <<"p", "r", "o", "j", "e", "c", "t", "-", "d", "o", "c", "s">>
SrcProjectRoot == <<"p", "r", "o", "j", "e", "c", "t", "-", "r", "o", "o", "t">>

\* the base directories of the three sources
commandsDir == <<"/", "c">>
projectDocsDir == <<"/", "d">>
projectRootDir == <<"/", "r">>

\* the entries of the three source trees, by name; a name ending in "/" is a
\* directory
TreeEntries ==
    {"c/", "c/.g/", "c/.g/a.md", "c/.h.md", "c/a.md", "c/big.md", "c/eq.md", "c/k.md",
     "c/l.md", "c/n..v.md", "c/p:q.md", "c/x/", "c/x/a.md",
     "d/", "d/a.md", "d/m/", "d/m/a.md", "d/m/x/", "d/m/x/a.md",
     "r/", "r/.h.md", "r/a.md", "r/m/", "r/m/a.md", "r/t.txt"}

\* the source of an entry, its path below the source's base directory as a
\* list of names, and whether it is a directory
Tree(e) ==
    CASE e = "c/" -> [src |-> SrcCommands, rel |-> <<>>, dir |-> TRUE]
      [] e = "c/.g/" -> [src |-> SrcCommands, rel |-> <<<<".", "g">>>>, dir |-> TRUE]
      [] e = "c/.g/a.md" -> [src |-> SrcCommands, rel |-> <<<<".", "g">>, <<"a", ".", "m", "d">>>>, dir |-> FALSE]
      [] e = "c/.h.md" -> [src |-> SrcCommands, rel |-> <<<<".", "h", ".", "m", "d">>>>, dir |-> FALSE]
      [] e = "c/a.md" -> [src |-> SrcCommands, rel |-> <<<<"a", ".", "m", "d">>>>, dir |-> FALSE]
      [] e = "c/big.md" -> [src |-> SrcCommands, rel |-> <<<<"b", "i", "g", ".", "m", "d">>>>, dir |-> FALSE]
      [] e = "c/eq.md" -> [src |-> SrcCommands, rel |-> <<<<"e", "q", ".", "m", "d">>>>, dir |-> FALSE]
      [] e = "c/k.md" -> [src |-> SrcCommands, rel |-> <<<<"k", ".", "m", "d">>>>, dir |-> FALSE]
      [] e = "c/l.md" -> [src |-> SrcCommands, rel |-> <<<<"l", ".", "m", "d">>>>, dir |-> FALSE]
      [] e = "c/n..v.md" -> [src |-> SrcCommands, rel |-> <<<<"n", ".", ".", "v", ".", "m", "d">>>>, dir |-> FALSE]
      [] e = "c/p:q.md" -> [src |-> SrcCommands, rel |-> <<<<"p", ":", "q", ".", "m", "d">>>>, dir |-> FALSE]
      [] e = "c/x/" -> [src |-> SrcCommands, rel |-> <<<<"x">>>>, dir |-> TRUE]
      [] e = "c/x/a.md" -> [src |-> SrcCommands, rel |-> <<<<"x">>, <<"a", ".", "m", "d">>>>, dir |-> FALSE]
      [] e = "d/" -> [src |-> SrcProjectDocs, rel |-> <<>>, dir |-> TRUE]
      [] e = "d/a.md" -> [src |-> SrcProjectDocs, rel |-> <<<<"a", ".", "m", "d">>>>, dir |-> FALSE]
      [] e = "d/m/" -> [src |-> SrcProjectDocs, rel |-> <<<<"m">>>>, dir |-> TRUE]
      [] e = "d/m/a.md" -> [src |-> SrcProjectDocs, rel |-> <<<<"m">>, <<"a", ".", "m", "d">>>>, dir |-> FALSE]
      [] e = "d/m/x/" -> [src |-> SrcProjectDocs, rel |-> <<<<"m">>, <<"x">>>>, dir |-> TRUE]
      [] e = "d/m/x/a.md" -> [src |-> SrcProjectDocs, rel |-> <<<<"m">>, <<"x">>, <<"a", ".", "m", "d">>>>, dir |-> FALSE]
      [] e = "r/" -> [src |-> SrcProjectRoot, rel |-> <<>>, dir |-> TRUE]
      [] e = "r/.h.md" -> [src |-> SrcProjectRoot, rel |-> <<<<".", "h", ".", "m", "d">>>>, dir |-> FALSE]
      [] e = "r/a.md" -> [src |-> SrcProjectRoot, rel |-> <<<<"a", ".", "m", "d">>>>, dir |-> FALSE]
      [] e = "r/m/" -> [src |-> SrcProjectRoot, rel |-> <<<<"m">>>>, dir |-> TRUE]
      [] e = "r/m/a.md" -> [src |-> SrcProjectRoot, rel |-> <<<<"m">>, <<"a", ".", "m", "d">>>>, dir |-> FALSE]
      [] e = "r/t.txt" -> [src |-> SrcProjectRoot, rel |-> <<<<"t", ".", "t", "x", "t">>>>, dir |-> FALSE]

\* the directory readDoc maps a source name to
sourceDir(sourceStr) ==
    CASE sourceStr = SrcCommands -> commandsDir
      [] sourceStr = SrcProjectDocs -> projectDocsDir
      [] OTHER -> projectRootDir

\* marks a server started without root docs: its ProjectRootDir is empty
RootDocsOff == "root docs off"

\* Config.ProjectRootDir as run() sets it: the working directory when root
\* docs are enabled, else the empty string
ProjectRootDir(files) == IF RootDocsOff \in files THEN <<>> ELSE projectRootDir

\* the base directory readDoc resolves a source against
baseDirOf(files, sourceStr) ==
    IF sourceStr = SrcProjectRoot THEN ProjectRootDir(files) ELSE sourceDir(sourceStr)

\* files and links the tools may meet; "/s.md" lies outside every source
ToolFiles == {e \in TreeEntries : ~Tree(e).dir} \cup {"/s.md"}

\* the absolute path of an entry
AbsPath(e) ==
    IF e = "/s.md" THEN <<"/", "s", ".", "m", "d">>
    ELSE filepathJoin(sourceDir(Tree(e).src), Join(Tree(e).rel, <<"/">>))

\* "link" for a symbolic link, "file" for a regular file
KindOf(e) == IF e \in {"c/l.md", "c/k.md"} THEN "link" ELSE "file"

\* where a symbolic link points: c/k.md to c/big.md, c/l.md out of the source
TargetOf(e) == IF e = "c/k.md" THEN AbsPath("c/big.md") ELSE AbsPath("/s.md")

\* the size of a regular file, in the units of maxFileSize
SizeOf(e) ==
    CASE e = "c/big.md" -> maxFileSize + 1
      [] e = "c/eq.md" -> maxFileSize
      [] OTHER -> 1

\* os.Lstat: the entry at path, if there is one; a relative path is taken
\* from the working directory of the process, which is the project root
Lstat(files, path) ==
    Apply(LAMBDA p :
        IF \E e \in files \cap ToolFiles : AbsPath(e) = p
        THEN Apply(LAMBDA e : [err |-> Nil, kind |-> KindOf(e), size |-> SizeOf(e),
                               target |-> TargetOf(e)],
                   CHOOSE x \in files \cap ToolFiles : AbsPath(x) = p)
        ELSE IF \E e \in files \cap ToolFiles : HasPrefix(p, AbsPath(e) \o <<"/">>)
             THEN [err |-> "not a directory", kind |-> "none", size |-> 0, target |-> <<>>]
        ELSE [err |-> NotExist, kind |-> "none", size |-> 0, target |-> <<>>],
        IF path = <<>> \/ IsAbs(path) THEN path ELSE filepathJoin(projectRootDir, path))

\* os.Stat: as Lstat, but a symbolic link is followed to its target
Stat(files, path) ==
    Apply(LAMBDA l : IF l.kind = "link" THEN Lstat(files, l.target) ELSE l,
          Lstat(files, path))

\* the errors of SafeResolvePath
ErrEmptyPath == "empty path provided"
ErrAbsolute == "absolute paths not allowed"
ErrTraversal == "path traversal not allowed"
ErrNotFound == "file not found"
ErrStat == "failed to stat file"
ErrTooLarge == "file too large"

\* (mutant) the file is looked up before the path is checked
SafeResolvePathStatFirst(files, baseDir, userPath, maxSize) ==
    IF userPath = <<>> THEN [path |-> <<>>, err |-> ErrEmptyPath, stat |-> FALSE]
    ELSE IF IsAbs(userPath) THEN [path |-> <<>>, err |-> ErrAbsolute, stat |-> FALSE]
    ELSE Apply(LAMBDA cleaned :
             Apply(LAMBDA absPath :
                 Apply(LAMBDA st :
                     IF st.err = NotExist
                     THEN [path |-> <<>>, err |-> ErrNotFound, stat |-> TRUE]
                     ELSE IF ContainsDotDot(cleaned)
                     THEN [path |-> <<>>, err |-> ErrTraversal, stat |-> TRUE]
                     ELSE IF st.err # Nil
                     THEN [path |-> <<>>, err |-> ErrStat, stat |-> TRUE]
                     ELSE IF st.size > maxSize
                     THEN [path |-> <<>>, err |-> ErrTooLarge, stat |-> TRUE]
                     ELSE [path |-> absPath, err |-> Nil, stat |-> TRUE],
                     Stat(files, absPath)),
                 filepathJoin(baseDir, cleaned)),
             Clean(IF HasSuffix(userPath, <<".", "m", "d">>)
                   THEN userPath ELSE userPath \o <<".", "m", "d">>))

\* SafeResolvePath over the files on disk: the resolved path, the error, and
\* whether os.Stat was reached
SafeResolvePath(files, baseDir, userPath, maxSize) ==
    IF userPath = <<>> THEN [path |-> <<>>, err |-> ErrEmptyPath, stat |-> FALSE]
    ELSE IF IsAbs(userPath) THEN [path |-> <<>>, err |-> ErrAbsolute, stat |-> FALSE]
    ELSE Apply(LAMBDA cleaned :
             Apply(LAMBDA absPath :
                 Apply(LAMBDA rel :
                     IF ContainsDotDot(cleaned)
                     THEN [path |-> <<>>, err |-> ErrTraversal, stat |-> FALSE]
                     ELSE IF rel.err # Nil \/ HasPrefix(rel.path, <<".", ".">>)
                     THEN [path |-> <<>>, err |-> ErrTraversal, stat |-> FALSE]
                     ELSE Apply(LAMBDA st :
                              IF st.err = NotExist
                              THEN [path |-> <<>>, err |-> ErrNotFound, stat |-> TRUE]
                              ELSE IF st.err # Nil
                              THEN [path |-> <<>>, err |-> ErrStat, stat |-> TRUE]
                              ELSE IF st.size > maxSize
                              THEN [path |-> <<>>, err |-> ErrTooLarge, stat |-> TRUE]
                              ELSE [path |-> absPath, err |-> Nil, stat |-> TRUE],
                              Stat(files, absPath)),
                     Rel(Clean(baseDir), Clean(absPath))),
                 filepathJoin(baseDir, cleaned)),
             Clean(IF HasSuffix(userPath, <<".", "m", "d">>)
                   THEN userPath ELSE userPath \o <<".", "m", "d">>))

\* path components of the paths a caller may ask for
UserSegments ==
    { <<>>, <<".">>, <<".", ".">>, <<"a">>, <<"a", ".", "m", "d">>,
      <<"n", ".", ".", "v">>, <<"l", ".", "m", "d">>, <<"s", ".", "m", "d">>,
      <<"b", "i", "g">>, <<"e", "q">> }

RECURSIVE UserPathsOf(_)
UserPathsOf(n) ==
    IF n = 0 THEN {<<>>}
    ELSE {<<seg>> \o rest : seg \in UserSegments, rest \in UserPathsOf(n - 1)}

UserPaths == {Join(parts, <<"/">>) : parts \in UNION {UserPathsOf(n) : n \in 1..MaxSegs}}

\* the unchanged caches and watcher of a tool step
idleCache == UNCHANGED <<subdir, cache, scanVars, watchVars, hist, call>>

\* a caller resolves userPath below the commands directory
ResolveCall(userPath) ==
    /\ tpc = "idle"
    /\ req' = [path |-> userPath, source |-> <<>>]
    /\ resp' = SafeResolvePath(fs, commandsDir, userPath, maxFileSize)
    /\ tpc' = "resolved"
    /\ idleCache
    /\ UNCHANGED <<fs, ctx>>

\* the caller takes the result
ToolReturn ==
    /\ tpc \in {"resolved", "done", "listed", "found", "parsed"}
    /\ tpc' = "idle"
    /\ req' = NoReq
    /\ resp' = NoResp
    /\ ctx' = "live"
    /\ idleCache
    /\ UNCHANGED fs

\* ------------------------------------------------------------ Server.readDoc
\* the sources readDoc tries when none is given, in its order
sources == <<SrcCommands, SrcProjectDocs, SrcProjectRoot>>

\* a nil source parameter; a pointer to "" is treated alike by readDoc
NoSource == <<>>

\* strings.Index(path, ":"), counted from 1; 0 when there is none
IndexColon(path) ==
    IF \E i \in 1..Len(path) : path[i] = ":"
    THEN CHOOSE i \in 1..Len(path) : path[i] = ":" /\ \A j \in 1..(i - 1) : path[j] # ":"
    ELSE 0

\* (mutant) the source parameter is looked at before the prefix
parseSourceParamFirst(path, source) ==
    IF source # NoSource
    THEN [sourceStr |-> source,
          cleanPath |-> IF IndexColon(path) > 0
                        THEN SubSeq(path, IndexColon(path) + 1, Len(path)) ELSE path]
    ELSE IF IndexColon(path) > 0
    THEN [sourceStr |-> SubSeq(path, 1, IndexColon(path) - 1),
          cleanPath |-> SubSeq(path, IndexColon(path) + 1, Len(path))]
    ELSE [sourceStr |-> <<>>, cleanPath |-> path]

\* the source and the path readDoc works with: strings.SplitN(path, ":", 2)
\* when path holds a colon, else the source parameter
parseSource(path, source) ==
    IF IndexColon(path) > 0
    THEN [sourceStr |-> SubSeq(path, 1, IndexColon(path) - 1),
          cleanPath |-> SubSeq(path, IndexColon(path) + 1, Len(path))]
    ELSE IF source # NoSource
    THEN [sourceStr |-> source, cleanPath |-> path]
    ELSE [sourceStr |-> <<>>, cleanPath |-> path]

\* the errors of readDoc
ErrInvalidSource == "invalid source"
ErrRead == "failed to read file"
ErrNotInAnySource == "file not found in any source"

\* the mark of a file the process may not read
Unreadable == "c/a.md unreadable"

\* os.ReadFile: the file read, through a symbolic link if path is one
ReadFile(files, path) ==
    Apply(LAMBDA l :
        Apply(LAMBDA at :
            IF Lstat(files, at).err # Nil
            THEN [err |-> ErrRead, file |-> <<>>]
            ELSE IF at = AbsPath("c/a.md") /\ Unreadable \in files
            THEN [err |-> ErrRead, file |-> <<>>]
            ELSE [err |-> Nil, file |-> at],
            IF l.kind = "link" THEN l.target ELSE path),
        Lstat(files, path))

\* (mutant) the resolver's error is reported as a missing file
resolveErrorAsNotFound(err) == ErrNotFound

\* fmt.Errorf("failed to resolve path in %s: %w"): the resolver's error is kept
resolveError(err) == err

\* what readDoc holds or returns
Resp(err, source, path, file, i) ==
    [err |-> err, source |-> source, path |-> path, file |-> file, i |-> i]

\* a caller asks readDoc for path, with or without a source
ReadCall(path, source) ==
    /\ tpc = "idle"
    /\ req' = [path |-> path, source |-> source]
    /\ tpc' = "entry"
    /\ idleCache
    /\ UNCHANGED <<fs, ctx, resp>>

\* the first context check, the source prefix, and for a given source the
\* switch and SafeResolvePath
ReadParse ==
    /\ tpc = "entry"
    /\ \E ps \in {parseSource(req.path, req.source)} :
       \E r \in {SafeResolvePath(fs, baseDirOf(fs, ps.sourceStr), ps.cleanPath, maxFileSize)} :
           IF ctx = "cancelled"
           THEN tpc' = "done" /\ resp' = Resp(Canceled, <<>>, <<>>, <<>>, 0)
           ELSE IF ps.sourceStr = <<>>
           THEN tpc' = "try" /\ resp' = Resp(Nil, <<>>, ps.cleanPath, <<>>, 1)
           ELSE IF \A i \in 1..Len(sources) : sources[i] # ps.sourceStr
           THEN tpc' = "done" /\ resp' = Resp(ErrInvalidSource, <<>>, <<>>, <<>>, 0)
           ELSE IF r.err # Nil
           THEN tpc' = "done" /\ resp' = Resp(resolveError(r.err), <<>>, <<>>, <<>>, 0)
           ELSE tpc' = "given" /\ resp' = Resp(Nil, ps.sourceStr, ps.cleanPath, r.path, 0)
    /\ idleCache
    /\ UNCHANGED <<fs, ctx, req>>

\* given source: the context check before reading, then os.ReadFile
ReadGiven ==
    /\ tpc = "given"
    /\ \E f \in {ReadFile(fs, resp.file)} :
           IF ctx = "cancelled"
           THEN resp' = Resp(Canceled, <<>>, <<>>, <<>>, 0)
           ELSE IF f.err # Nil
           THEN resp' = Resp(f.err, <<>>, <<>>, <<>>, 0)
           ELSE resp' = Resp(Nil, resp.source, resp.path, f.file, 0)
    /\ tpc' = "done"
    /\ idleCache
    /\ UNCHANGED <<fs, ctx, req>>

\* no source: one round of the loop over the three sources
ReadTry ==
    /\ tpc = "try"
    /\ resp.i <= Len(sources)
    /\ \E r \in {SafeResolvePath(fs, baseDirOf(fs, sources[resp.i]), resp.path, maxFileSize)} :
       \E f \in {ReadFile(fs, r.path)} :
           IF ctx = "cancelled"
           THEN tpc' = "done" /\ resp' = Resp(Canceled, <<>>, <<>>, <<>>, 0)
           ELSE IF r.err # Nil \/ f.err # Nil
           THEN tpc' = "try" /\ resp' = [resp EXCEPT !.i = @ + 1]
           ELSE tpc' = "done" /\ resp' = Resp(Nil, sources[resp.i], resp.path, f.file, 0)
    /\ idleCache
    /\ UNCHANGED <<fs, ctx, req>>

\* no source held the file
ReadNone ==
    /\ tpc = "try"
    /\ resp.i > Len(sources)
    /\ tpc' = "done"
    /\ resp' = Resp(ErrNotInAnySource, <<>>, <<>>, <<>>, 0)
    /\ idleCache
    /\ UNCHANGED <<fs, ctx, req>>

\* the caller's context is cancelled while the call runs
Cancel ==
    /\ tpc \notin {"idle", "done", "resolved"}
    /\ ctx = "live"
    /\ ctx' = "cancelled"
    /\ idleCache
    /\ UNCHANGED <<fs, tpc, req, resp>>

\* a file or link appears or disappears between two tool calls
DiskChange(e) ==
    /\ tpc = "idle"
    /\ fs' = IF e \in fs THEN fs \ {e} ELSE fs \cup {e}
    /\ idleCache
    /\ UNCHANGED toolVars

\* ------------------------------------------- Scanner.Scan, entry by entry
\* the entries of a source in the order filepath.WalkDir and os.ReadDir meet
\* them: depth first, the names of a directory in lexical order
TreeOrder(source) ==
    CASE source = SrcCommands ->
             <<"c/", "c/.g/", "c/.g/a.md", "c/.h.md", "c/a.md", "c/big.md", "c/eq.md",
               "c/k.md", "c/l.md", "c/n..v.md", "c/p:q.md", "c/x/", "c/x/a.md">>
      [] source = SrcProjectDocs ->
             <<"d/", "d/a.md", "d/m/", "d/m/a.md", "d/m/x/", "d/m/x/a.md">>
      [] OTHER -> <<"r/", "r/.h.md", "r/a.md", "r/m/", "r/m/a.md", "r/t.txt">>

\* the base directory of a source, as an entry
RootOf(source) == TreeOrder(source)[1]

\* d.Name(): the last element of the entry's path
NameOf(e) ==
    IF Tree(e).rel = <<>> THEN Base(sourceDir(Tree(e).src))
    ELSE Tree(e).rel[Len(Tree(e).rel)]

\* e lies somewhere below the directory d
IsBelow(e, d) ==
    /\ Tree(d).dir
    /\ Tree(d).src = Tree(e).src
    /\ Len(Tree(d).rel) < Len(Tree(e).rel)
    /\ SubSeq(Tree(e).rel, 1, Len(Tree(d).rel)) = Tree(d).rel

\* e is on disk together with every directory above it
Exists(files, e) == e \in files /\ \A d \in TreeEntries : IsBelow(e, d) => d \in files

\* marks a base directory that exists but cannot be read
DeniedDir(source) ==
    CASE source = SrcCommands -> "c/ denied"
      [] source = SrcProjectDocs -> "d/ denied"
      [] OTHER -> "r/ denied"

\* marks a source configured with a base directory whose name begins with
\* a dot (/.c for /c, as in --shared-docs-dir=~/.my-docs)
DotBase(source) ==
    CASE source = SrcCommands -> "c/ named .c"
      [] source = SrcProjectDocs -> "d/ named .d"
      [] OTHER -> "r/ named .r"

\* marks a project-docs base directory that carries an excluded name
ExcludedBase == "d/ named x"

\* DirEntry.Name(): for the base directory the last element of the configured
\* path, for any other entry its own name
entryName(files, e) ==
    IF Tree(e).rel # <<>> THEN NameOf(e)
    ELSE IF DotBase(Tree(e).src) \in files THEN <<".">> \o NameOf(e)
    ELSE IF Tree(e).src = SrcProjectDocs /\ ExcludedBase \in files THEN excludeDirs[1]
    ELSE NameOf(e)

\* the calls filepath.WalkDir makes to its function when nothing is skipped:
\* a directory that cannot be read is handed over once more with the error
walkDir(files, source) ==
    IF DeniedDir(source) \in files
    THEN << [e |-> RootOf(source), err |-> Nil, name |-> entryName(files, RootOf(source))],
            [e |-> RootOf(source), err |-> ReadDirError,
             name |-> entryName(files, RootOf(source))] >>
    ELSE LET on == SelectSeq(TreeOrder(source), LAMBDA e : Exists(files, e))
         IN  [k \in 1..Len(on) |-> [e |-> on[k], err |-> Nil, name |-> entryName(files, on[k])]]

\* os.ReadDir of the base directory: its direct entries, or the error
readDir(files, source) ==
    IF DeniedDir(source) \in files THEN [entries |-> <<>>, err |-> ReadDirError]
    ELSE LET on == SelectSeq(TreeOrder(source),
                             LAMBDA e : Exists(files, e) /\ Len(Tree(e).rel) = 1)
         IN  [entries |-> [k \in 1..Len(on) |->
                              [e |-> on[k], err |-> Nil, name |-> entryName(files, on[k])]],
              err |-> Nil]

\* a variant of walkFn that walks into hidden directories
walkFnIntoHidden(source, it, cancelled) ==
    LET name == it.name IN
    IF cancelled THEN "cancel"
    ELSE IF it.err # Nil THEN "next"
    ELSE IF HasPrefix(name, <<".">>) THEN "next"
    ELSE IF Tree(it.e).dir /\ source = SrcProjectDocs /\ shouldExcludeDir(name) THEN "skipdir"
    ELSE IF ~Tree(it.e).dir /\ HasSuffix(name, <<".", "m", "d">>) THEN "add"
    ELSE "next"

\* the function scanRecursive hands to filepath.WalkDir: "cancel" returns the
\* context's error, "skipdir" filepath.SkipDir, "next" nil, and "add" appends
\* the file and returns nil
walkFn(source, it, cancelled) ==
    LET name == it.name IN
    IF cancelled THEN "cancel"
    ELSE IF it.err # Nil THEN "next"
    ELSE IF HasPrefix(name, <<".">>) THEN IF Tree(it.e).dir THEN "skipdir" ELSE "next"
    ELSE IF Tree(it.e).dir /\ source = SrcProjectDocs /\ shouldExcludeDir(name) THEN "skipdir"
    ELSE IF ~Tree(it.e).dir /\ HasSuffix(name, <<".", "m", "d">>) THEN "add"
    ELSE "next"

\* the body of scanFlat's loop over the directory's entries
flatFn(it, cancelled) ==
    LET name == it.name IN
    IF cancelled THEN "cancel"
    ELSE IF HasPrefix(name, <<".">>) THEN "next"
    ELSE IF Tree(it.e).dir THEN "next"
    ELSE IF ~HasSuffix(name, <<".", "m", "d">>) THEN "next"
    ELSE "add"

\* what is left of the walk after filepath.SkipDir for the directory e
skipDir(queue, e) == SelectSeq(queue, LAMBDA it : ~IsBelow(it.e, e))

\* FileInfo.Size, from DirEntry.Info: a symbolic link is not followed, and
\* the link itself is far smaller than any limit
InfoSize(e) == IF KindOf(e) = "link" THEN 0 ELSE SizeOf(e)

\* Scan goes on after a source: the next one, or the return
afterSource(r) ==
    IF r.i < Len(sources)
    THEN [r EXCEPT !.i = @ + 1, !.stage = "source", !.queue = <<>>]
    ELSE [r EXCEPT !.stage = "return", !.queue = <<>>]

\* Scan goes on with the rest of a source's entries
afterEntry(r, queue) ==
    IF queue = <<>> THEN afterSource(r) ELSE [r EXCEPT !.queue = queue]

\* a variant of scanFailed that returns the entries collected so far
scanFailedKeepsResults(r, err) == [r EXCEPT !.err = err, !.stage = "return", !.queue = <<>>]

\* Scan's return of an error: no index with it
scanFailed(r, err) == [r EXCEPT !.err = err, !.results = <<>>, !.stage = "return", !.queue = <<>>]

\* a caller enters Scanner.Scan
ScanCall ==
    /\ tpc = "idle"
    /\ tpc' = "scan"
    /\ resp' = [err |-> Nil, results |-> <<>>, i |-> 1, stage |-> "source", queue |-> <<>>]
    /\ idleCache
    /\ UNCHANGED <<fs, ctx, req>>

\* Scan's check before a source and scanSource up to the listing of the
\* directory: its own check, os.Stat, and for the flat source os.ReadDir
ScanSourceStart ==
    /\ tpc = "scan"
    /\ resp.stage = "source"
    /\ LET source == sources[resp.i]
           rd == readDir(fs, source)
       IN  IF ctx = "cancelled"
           THEN tpc' = "done" /\ resp' = scanFailed(resp, Canceled)
           ELSE IF RootOf(source) \notin fs
           THEN tpc' = tpc /\ resp' = afterSource(resp)
           ELSE IF source # SrcProjectRoot
           THEN tpc' = tpc /\ resp' = [resp EXCEPT !.stage = "walk", !.queue = walkDir(fs, source)]
           ELSE IF rd.err # Nil
           THEN tpc' = "done" /\ resp' = scanFailed(resp, rd.err)
           ELSE tpc' = tpc /\ resp' = afterEntry([resp EXCEPT !.stage = "flat"], rd.entries)
    /\ idleCache
    /\ UNCHANGED <<fs, ctx, req>>

\* one entry of the source: a call of the walk function, or a turn of
\* scanFlat's loop
ScanVisit ==
    /\ tpc = "scan"
    /\ resp.stage \in {"walk", "flat"}
    /\ LET source == sources[resp.i]
           it == Head(resp.queue)
           verdict == IF resp.stage = "walk" THEN walkFn(source, it, ctx = "cancelled")
                      ELSE flatFn(it, ctx = "cancelled")
       IN  CASE verdict = "cancel" -> tpc' = "done" /\ resp' = scanFailed(resp, Canceled)
             [] verdict = "skipdir" ->
                    /\ tpc' = tpc
                    /\ resp' = afterEntry(resp, skipDir(Tail(resp.queue), it.e))
             [] verdict = "add" ->
                    /\ tpc' = tpc
                    /\ resp' = afterEntry([resp EXCEPT !.results = Append(@, it.e)],
                                          Tail(resp.queue))
             [] OTHER -> tpc' = tpc /\ resp' = afterEntry(resp, Tail(resp.queue))
    /\ idleCache
    /\ UNCHANGED <<fs, ctx, req>>

\* Scan returns the index after the last source
ScanFinish ==
    /\ tpc = "scan"
    /\ resp.stage = "return"
    /\ tpc' = "done"
    /\ idleCache
    /\ UNCHANGED <<fs, ctx, req, resp>>

\* ---------------------------------------------------------- Server.listAllDocs
\* FileInfo.Filename: the source, a colon and the path below the base directory
Filename(e) == Tree(e).src \o <<":">> \o Join(Tree(e).rel, <<"/">>)

\* the DocInfo listAllDocs builds for an entry of the index
docInfo(e, maxSize) ==
    [e |-> e, filename |-> Filename(e), size |-> InfoSize(e), tooLarge |-> InfoSize(e) > maxSize]

\* a caller asks for the list: listAllDocs enters Scanner.Scan
ListCall ==
    /\ tpc = "idle"
    /\ tpc' = "scan"
    /\ req' = [path |-> <<>>, source |-> <<>>, list |-> TRUE]
    /\ resp' = [err |-> Nil, results |-> <<>>, i |-> 1, stage |-> "source", queue |-> <<>>]
    /\ idleCache
    /\ UNCHANGED <<fs, ctx>>

\* listAllDocs after the scan: the scanner's error, or the loop over the
\* files with its context check
ListDocs ==
    /\ tpc = "done"
    /\ "list" \in DOMAIN req
    /\ tpc' = "listed"
    /\ resp' = IF resp.err # Nil THEN [err |-> resp.err, docs |-> <<>>]
               ELSE IF ctx = "cancelled" /\ resp.results # <<>>
               THEN [err |-> Canceled, docs |-> <<>>]
               ELSE [err |-> Nil,
                     docs |-> [k \in 1..Len(resp.results) |->
                                  docInfo(resp.results[k], maxFileSize)]]
    /\ idleCache
    /\ UNCHANGED <<fs, ctx, req>>

\* the caller reads the k-th listed document by its filename, in a new request
ReadListed(k) ==
    /\ tpc = "listed"
    /\ k \in 1..Len(resp.docs)
    /\ req' = [path |-> resp.docs[k].filename, source |-> NoSource, doc |-> resp.docs[k]]
    /\ tpc' = "entry"
    /\ ctx' = "live"
    /\ idleCache
    /\ UNCHANGED <<fs, resp>>

\* ---------------------------------------------------------- Server.searchDocs
\* scores are kept exactly, as whole multiples of 1/ScoreUnit: 1000 for the
\* factors 0.8, 0.7 and 1/100, and 27720 = lcm(1..12) for the name lengths
ScoreUnit == 1000 * 27720

maxSearchResults == 10

\* a fuzzy similarity is accepted from fuzzyThreshold (0.3) on, in hundredths
fuzzyThreshold == 30

\* strings.ToLower on the letters the queries use
ToLower(c) ==
    CASE c = "A" -> "a"
      [] c = "B" -> "b"
      [] c = "C" -> "c"
      [] OTHER -> c

\* the query as searchDocs matches it against file names: lower case, every
\* space replaced by a hyphen
normalizeQuery(query) ==
    [i \in 1..Len(query) |-> IF query[i] = " " THEN "-" ELSE ToLower(query[i])]

\* strings.Contains
Contains(s, substr) ==
    \E i \in 0..(Len(s) - Len(substr)) : SubSeq(s, i + 1, i + Len(substr)) = substr

\* the separators of sahilm/fuzzy
isSeparator(c) == c \in {"/", "-", "_", " ", ".", "\\"}

\* one character of the candidate in fuzzy.Find's scan: st.pi is the pattern
\* position (from 1), st.best and st.mi the best occurrence of that pattern
\* character so far, st.adj the running adjacency bonus, st.matched the
\* matched positions (from 0). Pattern and candidate are lower case, so the
\* camel-case bonus never applies.
fuzzyStep(pattern, str, j, st) ==
    LET hit == st.pi <= Len(pattern) /\ str[j] = pattern[st.pi]
        bonus == IF hit /\ st.matched # <<>> /\ st.matched[Len(st.matched)] = j - 2
                 THEN st.adj * 2 + 5 ELSE 0
        score == (IF j = 1 THEN 10 ELSE 0)
                 + (IF j > 1 /\ isSeparator(str[j - 1]) THEN 20 ELSE 0)
                 + bonus
        better == hit /\ score > st.best
        best == IF better THEN score ELSE st.best
        mi == IF better THEN j - 1 ELSE st.mi
        atEnd == j = Len(str)
        nextMatches == ~atEnd /\ st.pi < Len(pattern) /\ str[j + 1] = pattern[st.pi + 1]
        leading == IF st.matched = <<>>
                   THEN (IF mi * (-5) > -15 THEN mi * (-5) ELSE -15)
                   ELSE 0
    IN IF (nextMatches \/ atEnd) /\ mi > -1
       THEN [score |-> st.score + best + leading, pi |-> st.pi + 1, best |-> -1,
             mi |-> mi, adj |-> st.adj + bonus, matched |-> Append(st.matched, mi)]
       ELSE [st EXCEPT !.best = best, !.mi = mi, !.adj = st.adj + bonus]

RECURSIVE fuzzyScan(_, _, _, _)
fuzzyScan(pattern, str, j, st) ==
    IF j > Len(str) THEN st
    ELSE fuzzyScan(pattern, str, j + 1, Apply(LAMBDA s : fuzzyStep(pattern, str, j, s), st))

\* fuzzy.Find(pattern, []string{str}): the score of the one candidate, with
\* one point off for each unmatched character, or no match (matched FALSE)
\* when the pattern is empty or not a subsequence of the candidate
fuzzyFind(pattern, str) ==
    IF pattern = <<>> THEN [matched |-> FALSE, score |-> 0]
    ELSE LET st == fuzzyScan(pattern, str, 1,
                       [score |-> 0, pi |-> 1, best |-> -1, mi |-> -1, adj |-> 0,
                        matched |-> <<>>])
         IN [matched |-> Len(st.matched) = Len(pattern),
             score |-> st.score + Len(st.matched) - Len(str)]

\* how calculateScore matches a name: exactly, as a substring, or fuzzily
matchKind(query, normalizedName) ==
    IF normalizedName = query \/ normalizedName = query \o <<".", "m", "d">> THEN "exact"
    ELSE IF Contains(normalizedName, query) THEN "substring"
    ELSE "fuzzy"

\* calculateScore: 1.0 for the name or the name with .md, 0.8 times the part of
\* the name the query covers for a substring, 0.7 times the similarity
\* (hundredths, at most 1.0) for a fuzzy match from the threshold on, else 0
calculateScore(query, normalizedName) ==
    LET kind == matchKind(query, normalizedName)
        m == fuzzyFind(query, normalizedName)
        fuzzyScore == IF m.score > 100 THEN 100 ELSE m.score
    IN IF kind = "exact" THEN ScoreUnit
       ELSE IF kind = "substring"
       THEN 800 * Len(query) * (27720 \div Len(normalizedName))
       ELSE IF m.matched /\ m.score > 0 /\ fuzzyScore >= fuzzyThreshold
       THEN 7 * fuzzyScore * 27720
       ELSE 0

\* the index the searches run over, in index order: the normalized name of
\* each file with its source, description and tags. Names are at most 12
\* characters long.
Abc == <<"a", "b", "c">>

Md == <<".", "m", "d">>

SearchPool ==
    << [id |-> 1,  source |-> SrcCommands,    name |-> Abc \o <<"-", "d">> \o Md,
        description |-> <<>>, tags |-> <<>>],
       [id |-> 2,  source |-> SrcCommands,    name |-> Abc \o <<"-", "d", "e", "f", "g">> \o Md,
        description |-> <<>>, tags |-> <<>>],
       [id |-> 3,  source |-> SrcCommands,    name |-> Abc \o Md,
        description |-> <<>>, tags |-> <<>>],
       [id |-> 4,  source |-> SrcCommands,    name |-> <<"a", "-", "b", "-", "c">> \o Md,
        description |-> <<"a", " ", "b">>, tags |-> << Abc \o <<"d">> >>],
       [id |-> 5,  source |-> SrcCommands,    name |-> Abc \o <<"-", "e">> \o Md,
        description |-> <<>>, tags |-> <<>>],
       [id |-> 6,  source |-> SrcCommands,    name |-> <<"x">> \o Abc \o Md,
        description |-> <<>>, tags |-> <<>>],
       [id |-> 7,  source |-> SrcCommands,    name |-> <<"x", "y", "z">> \o Md,
        description |-> <<"A", "b", "c", " ", "x">>,
        tags |-> << Abc, Abc \o <<"d">>, <<"x", "A", "B", "C">> >>],
       [id |-> 8,  source |-> SrcProjectDocs, name |-> Abc \o <<"-", "d", "e">> \o Md,
        description |-> <<>>, tags |-> <<>>],
       [id |-> 9,  source |-> SrcProjectDocs, name |-> Abc \o <<"-", "d", "e", "f", "g">> \o Md,
        description |-> <<>>, tags |-> <<>>],
       [id |-> 10, source |-> SrcProjectDocs, name |-> Abc \o <<"-", "d", "e", "f">> \o Md,
        description |-> <<>>, tags |-> <<>>],
       [id |-> 11, source |-> SrcProjectDocs, name |-> <<"a", "b", "-", "c">> \o Md,
        description |-> <<>>, tags |-> <<>>],
       [id |-> 12, source |-> SrcProjectDocs, name |-> <<"a", "-", "b", "c">> \o Md,
        description |-> <<>>, tags |-> <<>>],
       [id |-> 13, source |-> SrcProjectRoot, name |-> Abc \o Md,
        description |-> <<>>, tags |-> <<>>],
       [id |-> 14, source |-> SrcProjectRoot, name |-> Abc \o <<"-", "d", "e", "f", "g">> \o Md,
        description |-> <<>>, tags |-> <<>>],
       [id |-> 15, source |-> SrcProjectRoot, name |-> Abc \o <<"-", "d", "e", "f", "g", "h">> \o Md,
        description |-> <<>>, tags |-> <<>>],
       [id |-> 16, source |-> SrcProjectRoot, name |-> Abc \o <<"-", "d", "e">> \o Md,
        description |-> <<>>, tags |-> <<>>] >>

\* the queries callers search for
SearchQueries ==
    {<<>>, Abc, <<"A", "b", "c">>, <<"a", " ", "b">>, <<"a", "b">>}

\* the orders sort.Slice can leave the matches in rest: by descending score.
\* With stable set only the order that keeps equal scores in their order of
\* insertion is produced, else every order of the equal scores is.
RECURSIVE sortOrders(_, _, _)
sortOrders(matches, rest, stable) ==
    IF rest = {} THEN {<<>>}
    ELSE LET top == {k \in rest : \A m \in rest : matches[m].score <= matches[k].score}
             first == IF stable THEN {CHOOSE k \in top : \A m \in top : k <= m} ELSE top
         IN UNION {{<<matches[k]>> \o t :
                      t \in Apply(LAMBDA r : sortOrders(matches, r, stable), rest \ {k})} :
                   k \in first}

\* sort.Slice with the comparison matches[i].Score > matches[j].Score: it
\* gives no guarantee for equal scores. Up to 12 elements it is an insertion
\* sort, which keeps their order; beyond that any order of them can result.
sortSlice(matches) == sortOrders(matches, 1..Len(matches), Len(matches) <= 12)

\* the results and the total of the wrong limit: the total counted after the cut
limitResultsTotalAfter(matches) ==
    LET cut == IF Len(matches) > maxSearchResults
               THEN SubSeq(matches, 1, maxSearchResults) ELSE matches
    IN [results |-> cut, total |-> Len(cut)]

\* the total counted, then the sorted matches cut to maxSearchResults
limitResults(matches) ==
    [results |-> IF Len(matches) > maxSearchResults
                 THEN SubSeq(matches, 1, maxSearchResults) ELSE matches,
     total |-> Len(matches)]

\* a caller searches for query in the index Scan returns, files: the empty
\* query returns at once, a failed Scan returns its error
SearchCall(query, files, scanErr) ==
    /\ tpc = "idle"
    /\ req' = [path |-> <<>>, source |-> <<>>, query |-> query, files |-> files]
    /\ IF query = <<>>
       THEN /\ tpc' = "found"
            /\ resp' = [err |-> Nil, matches |-> <<>>, i |-> 1, results |-> <<>>, total |-> 0]
       ELSE IF scanErr # Nil
       THEN /\ tpc' = "found"
            /\ resp' = [err |-> scanErr, matches |-> <<>>, i |-> 1, results |-> <<>>, total |-> 0]
       ELSE /\ tpc' = "score"
            /\ resp' = [err |-> Nil, matches |-> <<>>, i |-> 1, results |-> <<>>, total |-> 0]
    /\ idleCache
    /\ UNCHANGED <<fs, ctx>>

\* the score searchDocs gives a file: calculateScore of the normalized query
\* and the normalized name
scoreOf(query, f) == calculateScore(normalizeQuery(query), f.name)

\* the query as it is matched against descriptions and tags: lower case, the
\* spaces kept
frontmatterQuery(query) == [i \in 1..Len(query) |-> ToLower(query[i])]

\* what one tag adds: 0.3 when it is the query, 0.15 when it contains it,
\* whatever the case of its letters
tagBoost(query, tag) ==
    IF frontmatterQuery(tag) = query THEN 3 * (ScoreUnit \div 10)
    ELSE IF Contains(frontmatterQuery(tag), query) THEN 15 * (ScoreUnit \div 100)
    ELSE 0

RECURSIVE tagsBoost(_, _)
tagsBoost(query, tags) ==
    IF tags = <<>> THEN 0
    ELSE tagBoost(query, Head(tags)) + tagsBoost(query, Tail(tags))

\* the boost without its cap
applyFrontmatterBoostUncapped(baseScore, query, file) ==
    baseScore
    + (IF Contains(frontmatterQuery(file.description), query) THEN ScoreUnit \div 2 ELSE 0)
    + tagsBoost(query, file.tags)

\* applyFrontmatterBoost: the base score plus 0.5 for a description that
\* contains the query and the boosts of the tags, the sum of the boosts
\* capped at 1.0
applyFrontmatterBoost(baseScore, query, file) ==
    LET boost == (IF Contains(frontmatterQuery(file.description), query)
                  THEN ScoreUnit \div 2 ELSE 0)
                 + tagsBoost(query, file.tags)
    IN baseScore + (IF boost > ScoreUnit THEN ScoreUnit ELSE boost)

\* the score of a file in the revision of searchDocs that boosts by
\* frontmatter: the filename score, then the boost
scoreOfBoosted(query, f) ==
    applyFrontmatterBoost(calculateScore(normalizeQuery(query), f.name),
                          frontmatterQuery(query), f)

\* one round of the loop over the files: the context check, then the score of
\* the file, which is kept when positive
SearchScoreBy(boosted) ==
    /\ tpc = "score"
    /\ resp.i <= Len(req.files)
    /\ IF ctx = "cancelled"
       THEN /\ tpc' = "found"
            /\ resp' = [resp EXCEPT !.err = Canceled, !.matches = <<>>]
       ELSE /\ tpc' = tpc
            /\ \E f \in {req.files[resp.i]} :
               \E score \in {IF boosted THEN scoreOfBoosted(req.query, f)
                             ELSE scoreOf(req.query, f)} :
                 resp' = [resp EXCEPT !.i = @ + 1,
                            !.matches = IF score > 0
                                        THEN Append(@, [id |-> f.id, name |-> f.name,
                                                        score |-> score, source |-> f.source])
                                        ELSE @]
    /\ idleCache
    /\ UNCHANGED <<fs, ctx, req>>

\* the loop of searchDocs as src/app/server/server.go has it
SearchScore == SearchScoreBy(FALSE)

\* the loop of the revision that boosts by frontmatter
SearchScoreBoosted == SearchScoreBy(TRUE)

\* after the loop: the matches sorted by score, counted and cut to the limit
SearchSort ==
    /\ tpc = "score"
    /\ resp.i > Len(req.files)
    /\ tpc' = "found"
    /\ \E sorted \in sortSlice(resp.matches) :
       \E out \in {limitResults(sorted)} :
         resp' = [resp EXCEPT !.results = out.results, !.total = out.total]
    /\ idleCache
    /\ UNCHANGED <<fs, ctx, req>>

\* ------------------------------------- addWatchRecursive over the trees
\* the function addWatchRecursive hands to filepath.Walk, for an entry met
\* without error: "skipdir" returns filepath.SkipDir, "add" adds the
\* directory to the watcher, "next" returns nil
watchFn(e) ==
    LET name == NameOf(e) IN
    IF name # <<>> /\ HasPrefix(name, <<".">>) THEN IF Tree(e).dir THEN "skipdir" ELSE "next"
    ELSE IF Tree(e).dir /\ shouldExcludeDir(name) THEN "skipdir"
    ELSE IF Tree(e).dir THEN "add"
    ELSE "next"

\* the directories startWatcher leaves watched: those on disk that the walks
\* of the three source directories reach and add
watchedDirs(files) ==
    {d \in TreeEntries :
        /\ Tree(d).dir
        /\ Exists(files, d)
        /\ watchFn(d) = "add"
        /\ \A a \in TreeEntries : IsBelow(d, a) => watchFn(a) = "add"}

\* ------------------------------------------------------- ParseFrontmatter
\* bytes.Index: where sep first occurs in s, counted from 0, or -1
Index(s, sep) ==
    LET at == {i \in 0..(Len(s) - Len(sep)) : SubSeq(s, i + 1, i + Len(sep)) = sep}
    IN IF at = {} THEN -1 ELSE CHOOSE i \in at : \A k \in at : i <= k

\* yaml.Unmarshal of the block into rawFrontmatter: a block with the byte "!"
\* is malformed, any other block gives its letters as the description
yamlUnmarshal(yamlBlock) ==
    [err |-> \E i \in 1..Len(yamlBlock) : yamlBlock[i] = "!",
     description |-> SelectSeq(yamlBlock, LAMBDA b : b = "a")]

\* the frontmatter of no metadata
NoFrontmatter == [description |-> <<>>]

Dashes == <<"-", "-", "-">>

\* the parser with the content cut after the closing delimiter even when the
\* block does not parse
ParseFrontmatterStripsOnError(content) ==
    IF ~HasPrefix(content, Dashes \o <<"\n">>) /\ ~HasPrefix(content, Dashes \o <<"\r", "\n">>)
    THEN [fm |-> NoFrontmatter, content |-> content]
    ELSE
    LET lineEnding == IF HasPrefix(content, Dashes \o <<"\r", "\n">>)
                      THEN <<"\r", "\n">> ELSE <<"\n">>
        startIdx == Index(content, lineEnding) + Len(lineEnding)
        remaining == SubSeq(content, startIdx + 1, Len(content))
        closingPattern == Dashes \o lineEnding
        found == Index(remaining, lineEnding \o closingPattern)
        endIdx == IF HasPrefix(remaining, closingPattern) THEN 0
                  ELSE found + Len(lineEnding)
        yamlBlock == SubSeq(remaining, 1, endIdx)
        raw == yamlUnmarshal(yamlBlock)
        contentStart == startIdx + endIdx + Len(closingPattern)
    IN IF ~HasPrefix(remaining, closingPattern) /\ found = -1
       THEN [fm |-> NoFrontmatter, content |-> content]
       ELSE [fm |-> IF Len(yamlBlock) > 0 /\ ~raw.err
                    THEN [description |-> raw.description] ELSE NoFrontmatter,
             content |-> SubSeq(content, contentStart + 1, Len(content))]

\* ParseFrontmatter: the metadata and the content without the frontmatter
\* block. The original content comes back when it does not start with a ---
\* line, when no closing --- line with the line ending of the opening one
\* follows, or when the block between them does not parse.
ParseFrontmatter(content) ==
    IF ~HasPrefix(content, Dashes \o <<"\n">>) /\ ~HasPrefix(content, Dashes \o <<"\r", "\n">>)
    THEN [fm |-> NoFrontmatter, content |-> content]
    ELSE
    LET lineEnding == IF HasPrefix(content, Dashes \o <<"\r", "\n">>)
                      THEN <<"\r", "\n">> ELSE <<"\n">>
        startIdx == Index(content, lineEnding) + Len(lineEnding)
        remaining == SubSeq(content, startIdx + 1, Len(content))
        closingPattern == Dashes \o lineEnding
        found == Index(remaining, lineEnding \o closingPattern)
        endIdx == IF HasPrefix(remaining, closingPattern) THEN 0
                  ELSE found + Len(lineEnding)
        yamlBlock == SubSeq(remaining, 1, endIdx)
        raw == yamlUnmarshal(yamlBlock)
        contentStart == startIdx + endIdx + Len(closingPattern)
    IN IF ~HasPrefix(remaining, closingPattern) /\ found = -1
       THEN [fm |-> NoFrontmatter, content |-> content]
       ELSE IF Len(yamlBlock) > 0 /\ raw.err
       THEN [fm |-> NoFrontmatter, content |-> content]
       ELSE [fm |-> IF Len(yamlBlock) > 0
                    THEN [description |-> raw.description] ELSE NoFrontmatter,
             content |-> SubSeq(content, contentStart + 1, Len(content))]

\* the pieces documents are made of: a delimiter, the two line endings, a
\* letter and a byte that makes a block malformed
Pieces == {Dashes, <<"\n">>, <<"\r", "\n">>, <<"a">>, <<"!">>}

RECURSIVE DocumentsOf(_)
DocumentsOf(n) ==
    IF n = 0 THEN {<<>>}
    ELSE {d \o piece : d \in DocumentsOf(n - 1), piece \in Pieces}

\* the documents of at most max pieces
Documents(max) == UNION {DocumentsOf(n) : n \in 0..max}

\* the scanner parses the head of a document
ParseCall ==
    /\ tpc = "idle"
    /\ \E content \in Documents(MaxPieces) :
         /\ req' = [path |-> <<>>, source |-> <<>>, content |-> content]
         /\ resp' = ParseFrontmatter(content)
    /\ tpc' = "parsed"
    /\ idleCache
    /\ UNCHANGED <<fs, ctx>>

\* the state NewCachedScanner leaves over the files in files0
InitWith(obs, files0, sub, ok) ==
    /\ fs = files0
    /\ subdir = sub
    /\ cache = NoEntry
    /\ pc = [p \in Procs |-> "idle"]
    /\ results = [p \in Procs |-> <<>>]
    /\ ret = [p \in Procs |-> NoRet]
    /\ LET n == NewCachedScanner(ok, sub) IN
         /\ watcherActive = n.cs.watcherActive
         /\ watcher = n.cs.watcher
         /\ watched = n.cs.watched
         /\ loop = n.cs.loop
         /\ hist = [InitHist EXCEPT !.obs = obs, !.ctorErr = n.err]
    /\ stopCh = 0
    /\ events = <<>>
    /\ timer = -1
    /\ closeRet = <<>>
    /\ call = [p \in Procs |-> NoCall]
    /\ ctx = "live"
    /\ tpc = "idle"
    /\ req = NoReq
    /\ resp = NoResp

\* ---------------------------------------------------------- specifications
\* the steps of the Scan callers in procs
ScanStep(procs) ==
    \/ \E p \in procs : ScanBegin(p)
    \/ \E p \in procs : ScanCacheGet(p)
    \/ \E p \in procs : ScannerScanSource(p)
    \/ \E p \in procs : ScanCacheSet(p)
    \/ \E p \in procs : ScanReturn(p)

\* files changed by the environment of the cache specifications
CacheFiles == {"commands:c.md", "project-root:r.md"}
FreshFiles == {"commands:c.md"}
\* files changed by the environment of the watcher specification
WatchFiles == {"commands:c.md", "commands:sub/s.md"}

\* Spec: concurrent Scans, invalidations, ttl expiry and Close over the slot
Init ==
    \E files0 \in SUBSET CacheFiles : InitWith("log", files0, FALSE, TRUE)

Next ==
    \/ ScanStep(Procs)
    \/ \E f \in CacheFiles : FileChange(f)
    \/ Invalidate
    \/ Tick
    \/ Close

Spec == Init /\ [][Next]_vars

\* SpecFresh: the same callers, observed for the freshness of what they return
InitFresh ==
    \E files0 \in SUBSET CacheFiles : InitWith("fresh", files0, FALSE, TRUE)

NextFresh ==
    \/ ScanStep(Procs)
    \/ \E f \in FreshFiles : FileChange(f)
    \/ Invalidate
    \/ Tick

SpecFresh == InitFresh /\ [][NextFresh]_vars

\* SpecHit: the same callers, observed for what a cached result promises
InitHit ==
    \E files0 \in SUBSET CacheFiles : InitWith("expect", files0, FALSE, TRUE)

NextHit ==
    \/ ScanStep(Procs)
    \/ \E f \in FreshFiles : FileChange(f)
    \/ Invalidate
    \/ Tick

SpecHit == InitHit /\ [][NextHit]_vars

\* SpecWatch: one caller, the watcher, its loop and the watched directories
WatchProcs == {1}

InitWatch ==
    \E files0 \in SUBSET {"commands:c.md"}, sub \in BOOLEAN, ok \in BOOLEAN :
       InitWith("watch", files0, sub, ok)

NextWatch ==
    \/ ScanStep(WatchProcs)
    \/ \E f \in WatchFiles : WatchedChange(f)
    \/ MkDir
    \/ watchLoopEvent
    \/ watchLoopTimer
    \/ watchLoopStop
    \/ watchLoopClosed
    \/ Tick
    \/ Close

SpecWatch == InitWatch /\ [][NextWatch]_vars

\* the goroutine of watchLoop is scheduled and time passes
SpecWatchFair ==
    /\ SpecWatch
    /\ WF_vars(watchLoopEvent)
    /\ WF_vars(watchLoopTimer)
    /\ WF_vars(Tick)

\* SpecEvent: the loop of the watcher receives events of any path and operation
InitEvent ==
    \E files0 \in SUBSET {"commands:c.md"} : InitWith("event", files0, FALSE, TRUE)

NextEvent ==
    \/ ScanStep(WatchProcs)
    \/ \E e \in Events : Deliver(e)
    \/ watchLoopEvent
    \/ watchLoopTimer
    \/ Tick

SpecEvent == InitEvent /\ [][NextEvent]_vars

\* SpecResolve: SafeResolvePath below the commands directory, for any asked path
ResolveFiles == {"c/a.md", "c/n..v.md", "c/l.md", "c/big.md", "c/eq.md", "/s.md"}

InitResolve ==
    \E files0 \in SUBSET ResolveFiles : InitWith("tool", files0, FALSE, FALSE)

NextResolve ==
    \/ \E userPath \in UserPaths : ResolveCall(userPath)
    \/ ToolReturn
    \/ \E e \in ResolveFiles : DiskChange(e)

SpecResolve == InitResolve /\ [][NextResolve]_vars

\* SpecRead: readDoc for paths with and without a source prefix and parameter
ReadFiles == {"c/a.md", "d/a.md", "r/a.md", "c/big.md", Unreadable}

\* the source names a caller may give: the three sources, an unknown one, none
ReadSources == {SrcCommands, SrcProjectDocs, SrcProjectRoot, <<"x">>, NoSource}

\* the paths a caller may give, after the prefix
ReadPaths ==
    {Join(parts, <<"/">>) : parts \in UserPathsOf(1)}
       \cup {<<".", ".", "/", "s", ".", "m", "d">>}

ReadArgs ==
    {[path |-> p, source |-> src] : p \in ReadPaths, src \in ReadSources}
       \cup {[path |-> pre \o <<":">> \o p, source |-> src] :
                pre \in ReadSources, p \in ReadPaths, src \in ReadSources}

InitRead ==
    \E files0 \in SUBSET ReadFiles : InitWith("tool", files0, FALSE, FALSE)

NextRead ==
    \/ \E a \in ReadArgs : ReadCall(a.path, a.source)
    \/ ReadParse
    \/ ReadGiven
    \/ ReadTry
    \/ ReadNone
    \/ Cancel
    \/ ToolReturn
    \/ \E e \in ReadFiles : DiskChange(e)

SpecRead == InitRead /\ [][NextRead]_vars

\* SpecReadOff: the same reads on a server started without root docs
InitReadOff ==
    \E files0 \in SUBSET ReadFiles : InitWith("tool", files0 \cup {RootDocsOff}, FALSE, FALSE)

SpecReadOff == InitReadOff /\ [][NextRead]_vars

\* SpecScan: Scanner.Scan entry by entry over trees with hidden, excluded and
\* nested entries, with base directories present, missing or unreadable
ScanFixed ==
    {"c/.g/", "c/.h.md", "c/x/", "c/x/a.md", "d/a.md", "d/m/", "d/m/a.md", "d/m/x/",
     "r/m/", "r/.h.md", "r/t.txt"}

ScanFiles ==
    {"c/", "d/", "r/", "c/a.md", "c/.g/a.md", "d/m/x/a.md", "r/a.md", "r/m/a.md",
     DeniedDir(SrcCommands), DeniedDir(SrcProjectDocs), DeniedDir(SrcProjectRoot)}

InitScan ==
    \E files0 \in SUBSET ScanFiles : InitWith("tool", ScanFixed \cup files0, FALSE, FALSE)

NextScan ==
    \/ ScanCall
    \/ ScanSourceStart
    \/ ScanVisit
    \/ ScanFinish
    \/ Cancel
    \/ ToolReturn
    \/ \E e \in ScanFiles : DiskChange(e)

SpecScan == InitScan /\ [][NextScan]_vars

\* SpecScanBase: Scanner.Scan over sources whose configured base directory
\* has a plain name, a name beginning with a dot, or an excluded name
ScanBaseFixed == ScanFixed \cup {"c/", "d/", "r/"}

ScanBaseFiles ==
    {"c/a.md", "d/m/x/a.md", "r/a.md",
     DotBase(SrcCommands), DotBase(SrcProjectDocs), DotBase(SrcProjectRoot), ExcludedBase}

InitScanBase ==
    \E files0 \in SUBSET ScanBaseFiles : InitWith("tool", ScanBaseFixed \cup files0, FALSE, FALSE)

NextScanBase ==
    \/ ScanCall
    \/ ScanSourceStart
    \/ ScanVisit
    \/ ScanFinish
    \/ Cancel
    \/ ToolReturn

SpecScanBase == InitScanBase /\ [][NextScanBase]_vars

\* SpecList: listAllDocs over files at, below and above the size limit and
\* symbolic links, each listed document then read by its filename
ListFixed == {"c/", "d/", "r/"}

ListFiles == {"c/a.md", "c/big.md", "c/eq.md", "c/k.md", "c/l.md", "d/a.md", "r/a.md", "/s.md"}

InitList ==
    \E files0 \in SUBSET ListFiles : InitWith("tool", ListFixed \cup files0, FALSE, FALSE)

NextList ==
    \/ ListCall
    \/ ScanSourceStart
    \/ ScanVisit
    \/ ScanFinish
    \/ ListDocs
    \/ \E k \in 1..Cardinality(ListFiles) : ReadListed(k)
    \/ ReadParse
    \/ ReadGiven
    \/ Cancel
    \/ ToolReturn
    \/ \E e \in ListFiles : DiskChange(e)

SpecList == InitList /\ [][NextList]_vars

\* SpecRoundTrip: listAllDocs, then a read of each listed document by its
\* filename, over names with a colon and with consecutive dots, nested
\* files, files at and above the size limit and a symbolic link
RoundTripFixed == {"c/", "c/x/", "d/", "r/"}

RoundTripFiles ==
    {"c/a.md", "c/big.md", "c/eq.md", "c/k.md", "c/n..v.md", "c/p:q.md", "c/x/a.md",
     "d/a.md", "r/a.md"}

InitRoundTrip ==
    \E files0 \in SUBSET RoundTripFiles :
        InitWith("tool", RoundTripFixed \cup files0, FALSE, FALSE)

NextRoundTrip ==
    \/ ListCall
    \/ ScanSourceStart
    \/ ScanVisit
    \/ ScanFinish
    \/ ListDocs
    \/ \E k \in 1..Cardinality(RoundTripFiles) : ReadListed(k)
    \/ ReadParse
    \/ ReadGiven
    \/ Cancel
    \/ ToolReturn

SpecRoundTrip == InitRoundTrip /\ [][NextRoundTrip]_vars

\* SpecSearch: searchDocs for each query over each run of consecutive files
\* of the pool, with a Scan that can fail and a caller that can cancel
SearchIndexes ==
    {SubSeq(SearchPool, lo, hi) : lo \in 1..Len(SearchPool), hi \in 0..Len(SearchPool)}

InitSearch == InitWith("tool", {}, FALSE, FALSE)

NextSearch ==
    \/ \E query \in SearchQueries, files \in SearchIndexes, scanErr \in {Nil, ReadDirError} :
         SearchCall(query, files, scanErr)
    \/ SearchScore
    \/ SearchSort
    \/ Cancel
    \/ ToolReturn

SpecSearch == InitSearch /\ [][NextSearch]_vars

\* SpecSearchBoost: the same searches in the revision of searchDocs that
\* boosts the score by description and tags
NextSearchBoost ==
    \/ \E query \in SearchQueries, files \in SearchIndexes, scanErr \in {Nil, ReadDirError} :
         SearchCall(query, files, scanErr)
    \/ SearchScoreBoosted
    \/ SearchSort
    \/ Cancel
    \/ ToolReturn

SpecSearchBoost == InitSearch /\ [][NextSearchBoost]_vars

\* SpecParse: ParseFrontmatter on every document of up to MaxPieces pieces
InitParse == InitWith("tool", {}, FALSE, FALSE)

NextParse ==
    \/ ParseCall
    \/ ToolReturn

SpecParse == InitParse /\ [][NextParse]_vars

\* ------------------------------------------------------------------ claims
\* C1: whatever the interleaving of Scans, invalidations, ttl expiry and Close,
\* every index Scan returns and every value the slot holds is the complete
\* result of one successful Scanner.Scan, an empty slot holds nothing, and the
\* slot holds what the latest writer stored (last writer wins).
C1_SlotHoldsOneCompleteScan ==
    /\ cache.present => cache.files \in hist.scanLog /\ cache.files = hist.lastFill
    /\ ~cache.present => cache = NoEntry
    /\ \A p \in Procs :
          pc[p] = "done" /\ ret[p].err = Nil => ret[p].files \in hist.scanLog

\* two concurrent misses stored different results, after Close
C1_Witness ==
    /\ pc[1] = "done" /\ ret[1].scanned /\ ret[1].err = Nil
    /\ pc[2] = "done" /\ ret[2].scanned /\ ret[2].err = Nil
    /\ ret[1].files # ret[2].files
    /\ cache.present
    /\ stopCh = 1

\* C8: a Scan that fails or is cancelled returns the error and no index, and
\* that call has stored nothing in the slot.
C8_FailedScanLeavesSlot ==
    \A p \in Procs :
       pc[p] = "done" /\ ret[p].err # Nil => ret[p].files = <<>> /\ ~call[p].wrote

\* a scan failed on the unreadable project-root while a valid entry is cached
C8_Witness ==
    \E p \in Procs :
       /\ pc[p] = "done" /\ ret[p].err = ReadDirError /\ ret[p].scanned
       /\ cache.present /\ cache.left > 0

\* the index a call returned agrees with the disk on every file left alone
\* since the call began
Reflects(p) ==
    \A f \in call[p].unchanged : (\E i \in 1..Len(ret[p].files) : ret[p].files[i] = f) <=> f \in fs

\* C2: after invalidate() has run with no Scan in flight, the next Scan to look
\* the slot up re-reads the filesystem, and the index it returns reflects every
\* change made before it started.
C2_ScanAfterInvalidateIsFresh ==
    \A p \in Procs :
       pc[p] = "done" /\ call[p].fresh =>
          /\ ret[p].scanned
          /\ ret[p].err = Nil => Reflects(p)

\* the file was created between the invalidation and the Scan that shows it
C2_Witness ==
    \E p \in Procs :
       /\ pc[p] = "done" /\ call[p].fresh /\ ret[p].err = Nil
       /\ hist.stale
       /\ "commands:c.md" \in call[p].unchanged
       /\ ret[p].files = <<"commands:c.md", "project-root:r.md">>

\* C3: once every filesystem change has been followed by an invalidation, a
\* Scan that starts afterwards returns an index that reflects those changes.
C3_ScanAfterInvalidationReflectsChange ==
    \A p \in Procs :
       pc[p] = "done" /\ ret[p].err = Nil /\ call[p].afterInv => Reflects(p)

\* C9: an entry is served only while it is younger than the ttl, counted from
\* when it was stored, a hit leaves the entry as it is, a Get of an older
\* entry misses, and the Scan that missed returns the current filesystem.
C9_Lookup(p) ==
    pc[p] = "get" /\ pc'[p] # "get" =>
       IF cache.present /\ hist.age < CacheTTL
       THEN pc'[p] = "done" /\ ret'[p].files = cache.files /\ cache' = cache
       ELSE pc'[p] = "commands" /\ cache' = cache

C9_EntryServedWithinTTL ==
    /\ [](\A p \in Procs : pc[p] = "done" /\ ret[p].err = Nil /\ ret[p].scanned => Reflects(p))
    /\ [][\A p \in Procs : C9_Lookup(p)]_vars

\* a Scan has missed on an entry that outlived its ttl and returned the
\* file created since
C9_Witness ==
    \E p \in Procs :
       /\ pc[p] = "project-docs"
       /\ cache.present /\ cache.left = 0 /\ hist.age = CacheTTL
       /\ results[p] = <<"commands:c.md">>
       /\ cache.files = <<"project-root:r.md">>

\* a call entered Scan with a live context
Entered(p) == pc[p] = "done" /\ ~(ret[p].err = Canceled /\ ~ret[p].scanned)

C5_DebounceOneInvalidation ==
    /\ [](hist.invSince <= 1 /\ hist.invGap = defaultDebounce)
    /\ (timer >= 0) ~> (timer = -1 \/ loop # "running")

\* two relevant events within one window were answered by one invalidation
C5_Witness ==
    hist.lastBurst = 2 /\ hist.invSince = 1 /\ timer = -1

\* C6: with an active watcher, every change of an indexed .md file, also in a
\* subdirectory created after construction, is eventually followed by a cache
\* invalidation.
C6_ChangeIsFollowedByInvalidation ==
    (hist.stale /\ watcherActive) ~> (~hist.stale \/ ~watcherActive)

C10_Degraded ==
    /\ hist.ctorErr = Nil
    /\ watcher = "nil" /\ ~watcherActive /\ stopCh = 0 /\ timer = -1 /\ events = <<>>
    /\ \A i \in 1..Len(closeRet) : closeRet[i] = [err |-> Nil, closed |-> FALSE]

C11_Components(name) == Split(name)
C11_BaseName(name) == C11_Components(name)[Len(C11_Components(name))]

C11_Relevant(e) ==
    /\ e.op \cap {"write", "create", "remove", "rename"} # {}
    /\ Len(e.name) >= 3
    /\ e.name[Len(e.name) - 2] = "." /\ e.name[Len(e.name) - 1] = "m" /\ e.name[Len(e.name)] = "d"
    /\ C11_BaseName(e.name) = <<>> \/ C11_BaseName(e.name)[1] # "."
    /\ \A i \in 1..Len(C11_Components(e.name)) :
          \A j \in 1..Len(excludeDirs) : C11_Components(e.name)[i] # excludeDirs[j]

\* C11: watchLoop arms or resets the debounce timer for an event exactly when
\* the event's operation includes write, create, remove or rename, its path
\* ends in .md, its base name does not start with "." and no component of its
\* path is an excluded directory name; any other event leaves the timer as it
\* is; no event touches the cache.
C11_RelevantEventsArmTimer ==
    [][loop = "running" /\ loop' = "running" /\ events # <<>> /\ events' = Tail(events) =>
          /\ cache' = cache
          /\ IF C11_Relevant(Head(events))
             THEN timer' = defaultDebounce
             ELSE timer' = timer]_vars

\* an event that is not relevant was received while the timer was running
\* over a filled cache, and both are as they were
C11_Witness ==
    hist.lastEv = "ignored" /\ timer = 1 /\ cache.present /\ cache.left > 0

\* the normalized form of userPath leaves the base directory through ".."
C12_Escapes(userPath) ==
    /\ userPath # <<>> /\ ~IsAbs(userPath)
    /\ Split(Clean(userPath))[1] = <<".", ".">>

\* C12: a userPath whose normalized form escapes baseDir through ".." makes
\* SafeResolvePath fail with the path-traversal error, and os.Stat is not
\* reached: the error is path traversal whether or not the target exists.
C12_EscapeIsPathTraversal ==
    tpc = "resolved" /\ C12_Escapes(req.path) =>
       resp.err = ErrTraversal /\ ~resp.stat

\* a path climbing out of the base directory to a file that exists was refused
C12_Witness ==
    /\ tpc = "resolved" /\ "/s.md" \in fs
    /\ req.path = <<".", "/", ".", ".", "/", "s", ".", "m", "d">>
    /\ resp.err = ErrTraversal

\* userPath with .md appended when missing, normalized
C13_Normalized(userPath) ==
    Clean(IF HasSuffix(userPath, <<".", "m", "d">>) THEN userPath ELSE userPath \o <<".", "m", "d">>)

\* a relative path without ".." segments that names an existing file of at
\* most maxFileSize below the commands directory
C13_Valid(userPath) ==
    /\ userPath # <<>> /\ ~IsAbs(userPath)
    /\ \A i \in 1..Len(Split(C13_Normalized(userPath))) :
          Split(C13_Normalized(userPath))[i] # <<".", ".">>
    /\ Stat(fs, commandsDir \o <<"/">> \o C13_Normalized(userPath)).err = Nil
    /\ Stat(fs, commandsDir \o <<"/">> \o C13_Normalized(userPath)).size <= maxFileSize

\* C13: for a relative userPath whose normalized form has no ".." segment and
\* which names an existing file of at most maxSize below baseDir,
\* SafeResolvePath succeeds with a path below baseDir, also when a file name
\* has consecutive dots inside one segment.
C13_ValidPathResolves ==
    tpc = "resolved" /\ C13_Valid(req.path) =>
       resp.err = Nil /\ HasPrefix(resp.path, commandsDir \o <<"/">>)

\* C14: SafeResolvePath never succeeds for a path that, through a symbolic
\* link inside baseDir, designates a file outside baseDir.
C14_NoSymlinkOutOfBase ==
    tpc = "resolved" /\ resp.err = Nil /\ Lstat(fs, resp.path).kind = "link" =>
       HasPrefix(Lstat(fs, resp.path).target, commandsDir \o <<"/">>)

\* the source the caller chose and the path asked of it, as the claim words
\* them: the prefix of a path that has one, else the source parameter
C15_Chosen ==
    IF \E i \in 1..Len(req.path) : req.path[i] = ":"
    THEN SubSeq(req.path, 1, IndexColon(req.path) - 1)
    ELSE req.source

C15_Path ==
    IF \E i \in 1..Len(req.path) : req.path[i] = ":"
    THEN SubSeq(req.path, IndexColon(req.path) + 1, Len(req.path))
    ELSE req.path

\* resolve and the file read both succeed in a source
C15_Succeeds(src) ==
    /\ SafeResolvePath(fs, sourceDir(src), C15_Path, maxFileSize).err = Nil
    /\ ReadFile(fs, SafeResolvePath(fs, sourceDir(src), C15_Path, maxFileSize).path).err = Nil

C15_IsSource(src) == \E i \in 1..Len(sources) : sources[i] = src

\* C15: readDoc reads from the source of the path's prefix if it has one, else
\* from the source parameter, else from the first of commands, project-docs,
\* project-root in which resolve and the file read both succeed; a chosen
\* source is never replaced by another one, and with no source chosen and all
\* three failing the result is "file not found in any source".
C15_SourceSelection ==
    tpc = "done" /\ resp.err # Canceled =>
       IF C15_Chosen = <<>>
       THEN IF \E i \in 1..Len(sources) : C15_Succeeds(sources[i])
            THEN /\ resp.err = Nil
                 /\ C15_Succeeds(resp.source)
                 /\ \A i \in 1..Len(sources) :
                       C15_Succeeds(sources[i]) =>
                          \E j \in 1..i : sources[j] = resp.source
            ELSE resp.err = ErrNotInAnySource
       ELSE IF C15_IsSource(C15_Chosen) /\ C15_Succeeds(C15_Chosen)
       THEN /\ resp.err = Nil /\ resp.source = C15_Chosen
            /\ HasPrefix(resp.file, sourceDir(C15_Chosen) \o <<"/">>)
       ELSE resp.err \notin {Nil, ErrNotInAnySource}

\* a prefix won over the source parameter although both sources hold the file
C15_Witness ==
    /\ tpc = "done" /\ resp.err = Nil
    /\ req.source = SrcCommands /\ C15_Chosen = SrcProjectDocs
    /\ {"c/a.md", "d/a.md"} \subseteq fs /\ Unreadable \notin fs
    /\ resp.source = SrcProjectDocs /\ resp.file = AbsPath("d/a.md")

\* the resolver's verdict on the asked path in one source
C16_Verdict(src) == SafeResolvePath(fs, sourceDir(src), C15_Path, maxFileSize).err

C16_Rejections == {ErrTraversal, ErrTooLarge, ErrEmptyPath, ErrAbsolute}

\* C16 as stated: a rejection of the path as path traversal, too large or
\* invalid input is returned by readDoc as that kind of error, with a source
\* given and with none given; not found is reported only when the file is
\* missing from every source tried.
C16_ResolverFailureNeverMasked ==
    tpc = "done" /\ resp.err # Canceled =>
       /\ C15_IsSource(C15_Chosen) /\ C16_Verdict(C15_Chosen) \in C16_Rejections =>
             resp.err = C16_Verdict(C15_Chosen)
       /\ C15_Chosen = <<>> /\ resp.err = ErrNotInAnySource =>
             \A i \in 1..Len(sources) : C16_Verdict(sources[i]) \notin C16_Rejections

\* C16 amended: with a source given (prefix or parameter) a rejection of the
\* path as path traversal, too large or invalid input is returned as that kind
\* of error; with none given a rejection only moves readDoc on to the next
\* source, and "not found in any source" is returned when no source yields the
\* file, whatever the reasons were.
C16_ResolverFailureSurfacesForGivenSource ==
    tpc = "done" /\ resp.err # Canceled =>
       /\ C15_IsSource(C15_Chosen) /\ C16_Verdict(C15_Chosen) \in C16_Rejections =>
             resp.err = C16_Verdict(C15_Chosen)
       /\ C15_Chosen = <<>> /\ (\A i \in 1..Len(sources) : ~C15_Succeeds(sources[i])) =>
             resp.err = ErrNotInAnySource

\* a file over the limit was asked of a given source and refused as too large
C16_Witness ==
    /\ tpc = "done" /\ resp.err = ErrTooLarge
    /\ req.source = SrcCommands /\ req.path = <<"b", "i", "g">>
    /\ "c/big.md" \in fs

\* C18 (as stated): a Scan whose context is cancelled before or at any point
\* during the walk returns the cancellation error and no index.
C18_CancelledScanReturnsNoIndex ==
    tpc = "done" /\ ctx = "cancelled" =>
        resp.err = Canceled /\ resp.results = <<>>

\* C18 (amended): Scan checks the context before each of the three sources and
\* at every entry it visits; a context found cancelled at one of these checks
\* ends Scan with the cancellation error and no index, and whatever error Scan
\* returns, it returns no entries with it. After the last check Scan returns
\* the index it has built, whatever the context.
C18_CancellationSeenAtNextCheck ==
    [][tpc = "scan" =>
          /\ ctx = "cancelled" /\ resp.stage # "return" =>
                 tpc' = "done" /\ resp'.err = Canceled /\ resp'.results = <<>>
          /\ tpc' = "done" /\ resp'.err # Nil => resp'.results = <<>>
          /\ resp.stage = "return" /\ tpc' = "done" => resp' = resp]_vars

\* a cancellation was found in the third source, after the first two had
\* contributed entries
C18_Witness ==
    /\ tpc = "done"
    /\ ctx = "cancelled"
    /\ resp.err = Canceled
    /\ resp.results = <<>>
    /\ resp.i = 3
    /\ {"c/", "d/", "r/"} \subseteq fs
    /\ DeniedDir(SrcCommands) \notin fs
    /\ DeniedDir(SrcProjectDocs) \notin fs

\* the names of the directories above an entry, below its source's base
C19_Above(e) == {Tree(e).rel[j] : j \in 1..(Len(Tree(e).rel) - 1)}

\* C19: no index Scan returns holds an entry whose base name starts with ".",
\* an entry below a directory whose name starts with ".", a project-docs entry
\* below a directory of the exclusion list at any depth, or a project-root
\* entry that is not a direct child of the root directory.
C19_IndexHasNoExcludedEntry ==
    tpc = "done" /\ resp.err = Nil =>
        \A k \in 1..Len(resp.results) :
            LET e == resp.results[k] IN
            /\ Tree(e).rel # <<>>
            /\ Tree(e).rel[Len(Tree(e).rel)][1] # "."
            /\ \A d \in C19_Above(e) : d[1] # "."
            /\ Tree(e).src = SrcProjectDocs =>
                   \A d \in C19_Above(e) : \A j \in 1..Len(excludeDirs) : d # excludeDirs[j]
            /\ Tree(e).src = SrcProjectRoot => Len(Tree(e).rel) = 1

\* Scan returned an index over a tree that holds a file below a hidden
\* directory, one below an excluded directory of project-docs and one nested
\* below project-root, next to files that are indexed
C19_Witness ==
    /\ tpc = "done"
    /\ resp.err = Nil
    /\ {"c/", "d/", "r/", "c/.g/a.md", "d/m/x/a.md", "r/m/a.md", "r/a.md"} \subseteq fs
    /\ \A src \in {SrcCommands, SrcProjectDocs, SrcProjectRoot} : DeniedDir(src) \notin fs
    /\ \E k \in 1..Len(resp.results) : resp.results[k] = "c/x/a.md"
    /\ \E k \in 1..Len(resp.results) : resp.results[k] = "d/m/a.md"
    /\ \E k \in 1..Len(resp.results) : resp.results[k] = "r/a.md"

\* the sources whose base directory exists but cannot be read
C20_Unreadable ==
    {src \in {SrcCommands, SrcProjectDocs, SrcProjectRoot} :
        RootOf(src) \in fs /\ DeniedDir(src) \in fs}

\* C20: a source whose base directory is missing contributes no entry and
\* Scan succeeds with the other sources' entries; a base directory that exists
\* but cannot be read makes Scan return that error, for the recursive and the
\* flat sources alike.
C20_OnlyMissingRootIsEmpty ==
    tpc = "done" /\ ctx = "live" =>
        IF C20_Unreadable = {}
        THEN /\ resp.err = Nil
             /\ \A k \in 1..Len(resp.results) : RootOf(Tree(resp.results[k]).src) \in fs
        ELSE resp.err = ReadDirError /\ resp.results = <<>>

\* C17: for a file unchanged since the scan, list flags it too_large exactly
\* when reading it fails with TooLarge: a file of exactly maxSize is readable
\* and not flagged, a file of maxSize+1 is listed, flagged and unreadable.
C17_FlagAgreesWithRead ==
    tpc = "done" /\ "doc" \in DOMAIN req /\ resp.err # Canceled =>
        /\ req.doc.tooLarge <=> resp.err = ErrTooLarge
        /\ req.doc.e = "c/eq.md" => ~req.doc.tooLarge /\ resp.err = Nil
        /\ req.doc.e = "c/big.md" => req.doc.tooLarge /\ resp.err = ErrTooLarge

\* the files of the searched index whose name scores above 0 for the query
C21_Positive ==
    {k \in 1..Len(req.files) :
        calculateScore(normalizeQuery(req.query), req.files[k].name) > 0}

\* a search that has returned results for a query that is not empty
C21_Searched ==
    tpc = "found" /\ "query" \in DOMAIN req /\ req.query # <<>> /\ resp.err = Nil

\* C21: a search with a non-empty query returns its matches by descending
\* score, at most maxSearchResults of them, each a file of the index with its
\* own positive score, none scoring below a match left out, and a total that
\* counts every file of the index with a positive score, cut or not.
C21_TopResultsAndFullTotal ==
    C21_Searched =>
        LET q == normalizeQuery(req.query)
            res == resp.results
            ids == {res[n].id : n \in 1..Len(res)}
        IN /\ \A n \in 1..(Len(res) - 1) : res[n].score >= res[n + 1].score
           /\ Len(res) <= maxSearchResults
           /\ \A n, m \in 1..Len(res) : res[n].id = res[m].id => n = m
           /\ \A n \in 1..Len(res) :
                 \E k \in C21_Positive :
                    /\ req.files[k].id = res[n].id
                    /\ res[n].score = calculateScore(q, req.files[k].name)
           /\ \A k \in C21_Positive :
                 req.files[k].id \notin ids =>
                    /\ Len(res) = maxSearchResults
                    /\ \A n \in 1..Len(res) :
                          calculateScore(q, req.files[k].name) <= res[n].score
           /\ resp.total = Cardinality(C21_Positive)

\* fifteen files match and ten are returned
C21_Witness ==
    C21_Searched /\ resp.total = 15 /\ Len(resp.results) = maxSearchResults

\* C22: results of equal score keep the order of the index (ids rise with the
\* index), and a match of the same score as a returned one is left out only
\* if it comes later in the index.
C22_TiesKeepIndexOrder ==
    C21_Searched =>
        LET q == normalizeQuery(req.query)
            res == resp.results
            ids == {res[n].id : n \in 1..Len(res)}
        IN /\ \A n, m \in 1..Len(res) :
                 n < m /\ res[n].score = res[m].score => res[n].id < res[m].id
           /\ \A k \in C21_Positive : \A n \in 1..Len(res) :
                 /\ req.files[k].id \notin ids
                 /\ calculateScore(q, req.files[k].name) = res[n].score
                 => res[n].id < req.files[k].id

\* C23: among the matches of one query, an exact match scores at least as
\* much as a substring match or a fuzzy match, and a substring match at least
\* as much as a fuzzy match.
C23_MatchKindsOrdered ==
    "query" \in DOMAIN req /\ req.query # <<>> =>
        LET q == normalizeQuery(req.query)
            ms == resp.matches
        IN \A n, m \in 1..Len(ms) :
             LET kn == matchKind(q, ms[n].name)
                 km == matchKind(q, ms[m].name)
             IN /\ kn = "exact" /\ km # "exact" => ms[n].score >= ms[m].score
                /\ kn = "substring" /\ km = "fuzzy" => ms[n].score >= ms[m].score

\* the tags of file f that are the lower-case query q (exact TRUE) or only
\* contain it (exact FALSE)
C24_Tags(f, q, exact) ==
    {t \in 1..Len(f.tags) :
        LET tag == frontmatterQuery(f.tags[t])
        IN IF exact THEN tag = q ELSE tag # q /\ Contains(tag, q)}

\* the final score the claim gives file f: the filename score plus the boost,
\* in hundredths of ScoreUnit 50 for the description, 30 for each exact and 15
\* for each partial tag, at most 100 in all
C24_Final(f) ==
    LET q == frontmatterQuery(req.query)
        boost == (IF Contains(frontmatterQuery(f.description), q) THEN 50 ELSE 0)
                 + 30 * Cardinality(C24_Tags(f, q, TRUE))
                 + 15 * Cardinality(C24_Tags(f, q, FALSE))
    IN calculateScore(normalizeQuery(req.query), f.name)
       + (IF boost > 100 THEN 100 ELSE boost) * (ScoreUnit \div 100)

\* C24: in a finished search, a file of the index is among the matches exactly
\* when its filename score plus its capped frontmatter boost is above 0, it
\* carries that sum as its score, the total counts these files, and every
\* result is one of them (all of them when no more than maxSearchResults).
C24_BoostedScoreDecidesMatch ==
    C21_Searched =>
        LET ms == resp.matches
            res == resp.results
            hits == {k \in 1..Len(req.files) : C24_Final(req.files[k]) > 0}
        IN /\ Len(ms) = Cardinality(hits)
           /\ \A k \in hits :
                 \E n \in 1..Len(ms) : /\ ms[n].id = req.files[k].id
                                       /\ ms[n].score = C24_Final(req.files[k])
           /\ resp.total = Cardinality(hits)
           /\ \A n \in 1..Len(res) : \E m \in 1..Len(ms) : res[n] = ms[m]
           /\ Len(res) = IF Len(ms) > maxSearchResults THEN maxSearchResults ELSE Len(ms)

\* a file whose name does not match at all is returned with the capped boost
\* of its description and tags as its score, next to a match boosted by a tag
C24_Witness ==
    /\ C21_Searched
    /\ \E n \in 1..Len(resp.results) :
         /\ resp.results[n].id = 7
         /\ resp.results[n].score = ScoreUnit
         /\ calculateScore(normalizeQuery(req.query), resp.results[n].name) = 0
    /\ \E n \in 1..Len(resp.results) :
         /\ resp.results[n].id = 4
         /\ resp.results[n].score = 7 * 45 * 27720 + 15 * (ScoreUnit \div 100)

\* the line ending of the opening --- line of a document, <<>> when the
\* document does not start with such a line
C25_LineEnding(input) ==
    IF HasPrefix(input, Dashes \o <<"\r", "\n">>) THEN <<"\r", "\n">>
    ELSE IF HasPrefix(input, Dashes \o <<"\n">>) THEN <<"\n">>
    ELSE <<>>

\* the offsets at which a --- line with line ending le starts after the
\* opening line of the document
C25_Closings(input, le) ==
    LET line == Dashes \o le
    IN {p \in Len(line)..(Len(input) - Len(line)) :
          /\ SubSeq(input, p + 1, p + Len(line)) = line
          /\ p = Len(line) \/ SubSeq(input, p - Len(le) + 1, p) = le}

\* C25: a parsed document comes back whole, with empty metadata, when it has
\* no opening --- line, no closing --- line after it, or a block between them
\* that is malformed; in every other case the content returned is exactly the
\* bytes that follow the first closing --- line.
C25_ContentIsInputOrItsTail ==
    tpc = "parsed" =>
        LET input == req.content
            le == C25_LineEnding(input)
            closings == C25_Closings(input, le)
            first == CHOOSE p \in closings : \A k \in closings : p <= k
            block == SubSeq(input, Len(Dashes \o le) + 1, first)
        IN IF le = <<>> \/ closings = {} \/ (\E i \in 1..Len(block) : block[i] = "!")
           THEN resp.content = input /\ resp.fm = NoFrontmatter
           ELSE resp.content = SubSeq(input, first + Len(Dashes \o le) + 1, Len(input))

\* a document with a block and content after it: the block is taken as
\* metadata and the content alone comes back
C25_Witness ==
    /\ tpc = "parsed"
    /\ req.content = Dashes \o <<"\n", "a", "\n">> \o Dashes \o <<"\n", "a">>
    /\ resp.content = <<"a">>
    /\ resp.fm = [description |-> <<"a">>]

\* a Close that closed stopCh and the watcher has returned
C26_Closed == \E k \in 1..Len(closeRet) : closeRet[k].closed

\* C26: once Close has returned on a cache with an active watcher, the watch
\* loop takes no step that invalidates the cache (the timer case, which leaves
\* the fired timer disarmed).
C26_NoInvalidationAfterClose ==
    [][C26_Closed => ~(loop = "running" /\ timer = 0 /\ timer' = -1)]_vars

\* the directory an entry lies in
C27_Parent(e) ==
    CHOOSE d \in TreeEntries : IsBelow(e, d) /\ Len(Tree(d).rel) = Len(Tree(e).rel) - 1

\* C27: for every file of the index a Scan returns, an event that writes,
\* creates, removes or renames its path is relevant to the watcher, and the
\* directory it lies in is one the watcher added.
C27_IndexedFilesAreWatched ==
    tpc = "done" /\ resp.err = Nil =>
        \A k \in 1..Len(resp.results) :
            /\ \A op \in {"write", "create", "remove", "rename"} :
                  isRelevantEvent([op |-> {op}, name |-> AbsPath(resp.results[k])])
            /\ C27_Parent(resp.results[k]) \in watchedDirs(fs)

\* C28: on a server started without root docs, no read returns a file of the
\* project-root source, whether the caller names that source or names none.
C28_UnconfiguredSourceServesNothing ==
    RootDocsOff \in fs /\ tpc = "done" => ~(resp.err = Nil /\ resp.source = SrcProjectRoot)

\* a file the scan of its source is to return: an .md file inside the tree
\* with no hidden name on its path below the base directory and, in
\* project-docs, no excluded directory there; directly in the base directory
\* for the flat source
C29_Listed(e) ==
    LET rel == Tree(e).rel IN
    /\ ~Tree(e).dir
    /\ Exists(fs, e)
    /\ HasSuffix(NameOf(e), <<".", "m", "d">>)
    /\ \A k \in 1..Len(rel) : ~HasPrefix(rel[k], <<".">>)
    /\ Tree(e).src = SrcProjectDocs => \A k \in 1..(Len(rel) - 1) : ~shouldExcludeDir(rel[k])
    /\ Tree(e).src = SrcProjectRoot => Len(rel) = 1

\* C29: a finished Scan returns every non-hidden .md file of every source
\* tree, whatever the name of the source's configured base directory: a
\* leading dot or an excluded name there prunes nothing.
C29_BaseDirectoryIsNotPruned ==
    tpc = "done" /\ "results" \in DOMAIN resp /\ resp.err = Nil
        => \A e \in TreeEntries :
               C29_Listed(e) => \E k \in 1..Len(resp.results) : resp.results[k] = e

\* C30: with the files unchanged since the scan, reading a listed entry whose
\* size is at most maxSize by its filename succeeds, reports the entry's source
\* and returns the file at the entry's absolute path, whatever characters its
\* names contain.
C30_ListedEntryReadsBack ==
    tpc = "done" /\ "doc" \in DOMAIN req /\ resp.err # Canceled /\ req.doc.size <= maxFileSize
        => /\ resp.err = Nil
           /\ resp.source = Tree(req.doc.e).src
           /\ resp.file = AbsPath(req.doc.e)
====
